---- MODULE Spec2Model ----
(***************************************************************************)
(* A model of rasiin_design: the SMS gateway client (services/             *)
(* hormuud_sms_service.py, api/sms_api.py, utils/sms_utils.py), the        *)
(* notification rules engine (doctype/custom_notification), the            *)
(* notification API and the scheduled jobs (tasks.py).                     *)
(*                                                                         *)
(* The module holds one specification per component; the variables of the   *)
(* components a specification does not exercise stay at their idle values.  *)
(*   SpecRetry   HormuudSMSService._post_with_retry, one loop iteration     *)
(*               per step                                                   *)
(*   SpecSms     api send_sms, get_sms_balance, send_sms_via_hormuud        *)
(*   SpecNotify  evaluate_custom_notifications / send_notification /        *)
(*               mark_notification_as_read inside framework transactions    *)
(*   SpecJobs    check_and_notify_overdue_invoices / _low_stock             *)
(***************************************************************************)
EXTENDS Integers, Sequences, FiniteSets, TLC

\* Python's None: among strings, and among responses and exceptions.
None == "None"
NoResponse == [kind |-> "none"]

(***************************************************************************)
(* Bounds of the model.                                                    *)
(***************************************************************************)
\* The largest `retries` argument a call of _post_with_retry is given.
MaxRetries == 3
\* The longest list of mobile numbers a call is given.
MaxNumbers == 2
\* The longest message, in characters; the configured sms_character_limit is
\* drawn from 1..MaxMessageLen.
MaxMessageLen == 2

(***************************************************************************)
(* The gateway.  One POST is answered by a request exception (no response: *)
(* connection error, timeout) or by a response with an HTTP status and a    *)
(* body.  A body is not JSON at all, a JSON value that is no object, or a   *)
(* JSON object (a record: its keys are the record's fields).                *)
(***************************************************************************)
NotJson == [t |-> "notjson"]
JsonList == [t |-> "list"]
JsonDict(d) == [t |-> "dict", d |-> d]

D200 == [ResponseCode |-> "200", ResponseMessage |-> "SUCCESS."]
D205 == [ResponseCode |-> "205", ResponseMessage |-> "Insufficient balance"]
D207 == [ResponseCode |-> "207", ResponseMessage |-> "Wrong mobile number"]
DMessageID == [MessageID |-> "m-1"]
DUnknown == [detail |-> "maintenance"]

GatewayDicts == {D200, D205, D207, DMessageID, DUnknown}
Bodies == {NotJson, JsonList} \cup {JsonDict(d) : d \in GatewayDicts}

ConnError == [kind |-> "exception"]
Resp(status, body) == [kind |-> "response", status |-> status, body |-> body]

\* Every answer one POST can get: a request exception, an error status (500), a
\* non-200 status that is no error (204), or a 200 with any body.
Answers ==
  {ConnError, Resp(500, NotJson), Resp(204, NotJson)} \cup {Resp(200, b) : b \in Bodies}

\* dict.get(key): the value, or None when the key is absent.
Get(d, key) == IF key \in DOMAIN d THEN d[key] ELSE None

(***************************************************************************)
(* HormuudSMSService._is_valid_response                                    *)
(***************************************************************************)
IsValidResponse(response_data) ==
  /\ response_data.t = "dict"
  /\ Get(response_data.d, "ResponseCode") = "200"

(***************************************************************************)
(* HormuudSMSService._post_with_retry.  LoopIteration is one pass of the   *)
(* for loop on the local state st, given the gateway's answer to the POST   *)
(* of this pass.  response.json() raises requests' JSONDecodeError, a       *)
(* RequestException, on a body that is not JSON, so the except clause of    *)
(* the loop catches it; raise_for_status() raises HTTPError for a status    *)
(* of 400 and above and does nothing for another non-200 status.            *)
(***************************************************************************)
Min(a, b) == IF a <= b THEN a ELSE b

RECURSIVE Pow2(_)
Pow2(n) == IF n = 0 THEN 1 ELSE 2 * Pow2(n - 1)

\* wait_time = min(2 ** attempt, 5)
WaitTime(attempt) == Min(Pow2(attempt), 5)

\* The try block raised a RequestException.
RaisesRequestException(ans) ==
  \/ ans.kind = "exception"
  \/ /\ ans.kind = "response"
     /\ \/ ans.status = 200 /\ ans.body.t = "notjson"
        \/ ans.status # 200 /\ ans.status >= 400

BreakNever(last_response) == FALSE

\* The break of line 143: a 200 whose content was invalid.
BreakOn200(last_response) ==
  last_response # NoResponse /\ last_response.status = 200

LocalsInit ==
  [attempt |-> 0, last_response |-> NoResponse, last_exception |-> NoResponse,
   posts |-> <<>>, waits |-> <<>>, pc |-> "loop", result |-> NoResponse]

\* Lines 150-154, after the loop: a 200 with invalid content is returned anyway,
\* anything else raises.
AfterLoop(st) ==
  IF st.last_response # NoResponse /\ st.last_response.status = 200
  THEN [st EXCEPT !.pc = "returned", !.result = st.last_response]
  ELSE [st EXCEPT !.pc = "raised", !.result = st.last_exception]

LoopIteration(st, ans, r) ==
  LET posted == [st EXCEPT !.posts = Append(st.posts, ans)]
      ok200 == ans.kind = "response" /\ ans.status = 200 /\ ans.body.t # "notjson"
  IN
  IF ok200 /\ IsValidResponse(ans.body)
  THEN [posted EXCEPT !.pc = "returned", !.result = ans]
  ELSE
    LET s1 == IF ok200 THEN [posted EXCEPT !.last_response = ans]
              ELSE IF RaisesRequestException(ans)
                   THEN [posted EXCEPT !.last_exception = ans]
                   ELSE posted
    IN
    IF BreakOn200(s1.last_response)
    THEN AfterLoop(s1)
    ELSE
      LET s2 == IF s1.attempt < r
                THEN [s1 EXCEPT !.waits = Append(s1.waits, WaitTime(s1.attempt))]
                ELSE s1
      IN
      IF s2.attempt < r
      THEN [s2 EXCEPT !.attempt = s2.attempt + 1]
      ELSE AfterLoop(s2)

\* _post_with_retry run to its end on a script of gateway answers, one per POST.
RECURSIVE RunRetry(_, _, _)
RunRetry(st, answers, r) ==
  IF st.pc # "loop" \/ answers = <<>>
  THEN st
  ELSE RunRetry(LoopIteration(st, Head(answers), r), Tail(answers), r)

\* retries: int = 2, the default every caller in the repository uses.
DefaultRetries == 2

PostWithRetry(answers) == RunRetry(LocalsInit, answers, DefaultRetries)

\* The scripts of answers a call with the default retries can consume: after the
\* answer that ends the call the rest of the script is never read, so it is
\* fixed to ConnError.
Scripts ==
  {s \in [1..(DefaultRetries + 1) -> Answers] :
     \A i \in 1..(DefaultRetries + 1) :
       i > Len(PostWithRetry(s).posts) => s[i] = ConnError}

(***************************************************************************)
(* HormuudSMSService._handle_api_response.  A Python str value that the    *)
(* callers test with isinstance is kept as Str(..).                         *)
(***************************************************************************)
Str(x) == [t |-> "str", s |-> x]

RESPONSE_CODES ==
  [c \in {"200", "201", "203", "204", "205", "206", "207", "500"} |->
     CASE c = "200" -> "SUCCESS"
       [] c = "201" -> "Authentication Failed"
       [] c = "203" -> "Invalid Sender ID"
       [] c = "204" -> "Zero Balance (Prepaid Account)"
       [] c = "205" -> "Insufficient Balance (Prepaid Account)"
       [] c = "206" -> "The allowed message parts are exceeded"
       [] c = "207" -> "Wrong mobile number"
       [] OTHER -> "Unknown Error"]

\* Python truthiness of a dict value of the model (a string or None).
Truthy(v) == v # None /\ v # ""

HandleApiResponse(response_data, operation) ==
  IF response_data.t # "dict"
  THEN [success |-> FALSE, error |-> "Invalid response format",
        raw_response |-> response_data]
  ELSE
    LET d == response_data.d
        response_code == Get(d, "ResponseCode")
        response_message == IF "ResponseMessage" \in DOMAIN d
                            THEN d["ResponseMessage"] ELSE ""
    IN
    IF ~Truthy(response_code)
    THEN IF Truthy(Get(d, "success")) \/ "MessageID" \in DOMAIN d
         THEN [success |-> TRUE, message |-> Str("completed successfully"),
               data |-> response_data, raw_response |-> response_data]
         ELSE [success |-> FALSE, error |-> "Unknown response format",
               raw_response |-> response_data]
    ELSE
      LET status_message == IF response_code \in DOMAIN RESPONSE_CODES
                            THEN RESPONSE_CODES[response_code]
                            ELSE "Unknown Status Code"
      IN
      IF response_code = "200"
      THEN [success |-> TRUE, message |-> Str("sent successfully"),
            data |-> response_data, response_code |-> response_code,
            status_message |-> status_message, raw_response |-> response_data]
      ELSE
        LET error_details ==
              [success |-> FALSE, error |-> status_message,
               response_code |-> response_code, api_message |-> response_message,
               status_message |-> status_message, raw_response |-> response_data]
        IN
        IF response_code \in {"204", "205"}
        THEN error_details @@ [action_required |-> "Please recharge your SMS account"]
        ELSE IF response_code = "201"
        THEN error_details @@ [action_required |-> "Check your API credentials"]
        ELSE IF response_code = "203"
        THEN error_details @@ [action_required |-> "Check your sender ID configuration"]
        ELSE IF response_code = "207"
        THEN error_details @@ [action_required |-> "Verify the mobile number format"]
        ELSE error_details

(***************************************************************************)
(* The service's senders.  Each yields [raised, value]: whether the call    *)
(* raised, and the dict it returned otherwise.                              *)
(***************************************************************************)
Raised == [raised |-> TRUE, value |-> None]
Returned(v) == [raised |-> FALSE, value |-> v]

\* _validate_message: frappe.throw on an empty or over-long message.
ValidateMessageRaises(message_len, limit) == message_len = 0 \/ message_len > limit

\* The tail shared by the senders: _post_with_retry, response.json(),
\* _handle_api_response.
PostAndHandle(answers, operation) ==
  LET run == PostWithRetry(answers) IN
  IF run.pc = "raised"
  THEN Raised
  ELSE Returned(HandleApiResponse(run.result.body, operation))

\* send_sms_basic_auth: the exception of the POST is logged and raised again.
SendSmsBasicAuth(message_len, limit, answers) ==
  IF ValidateMessageRaises(message_len, limit)
  THEN Raised
  ELSE PostAndHandle(answers, "SMS")

\* send_sms (bearer token): _get_valid_token raises when no token is cached and
\* the token request fails.
SendSms(message_len, limit, token_ok, answers) ==
  IF ValidateMessageRaises(message_len, limit) \/ ~token_ok
  THEN Raised
  ELSE PostAndHandle(answers, "SMS")

\* check_sms_balance
CheckSmsBalance(token_ok, answers) ==
  IF ~token_ok THEN Raised ELSE PostAndHandle(answers, "SMS")

(***************************************************************************)
(* Strings are sequences of one-character strings.                         *)
(***************************************************************************)
Digits == {"0", "1", "2", "3", "4", "5", "6", "7", "8", "9"}
Whitespace == {" ", "\n"}

IsDigit(c) == c \in Digits

StartsWith(str, prefix) ==
  Len(str) >= Len(prefix) /\ SubSeq(str, 1, Len(prefix)) = prefix

RECURSIVE LStrip(_)
LStrip(str) ==
  IF str # <<>> /\ Head(str) \in Whitespace THEN LStrip(Tail(str)) ELSE str

RECURSIVE RStrip(_)
RStrip(str) ==
  IF str # <<>> /\ str[Len(str)] \in Whitespace
  THEN RStrip(SubSeq(str, 1, Len(str) - 1))
  ELSE str

\* str.strip()
Strip(str) == RStrip(LStrip(str))

\* str.split(sep) for a one-character separator.
RECURSIVE SplitFrom(_, _, _)
SplitFrom(str, sep, piece) ==
  IF str = <<>> THEN <<piece>>
  ELSE IF Head(str) = sep THEN <<piece>> \o SplitFrom(Tail(str), sep, <<>>)
  ELSE SplitFrom(Tail(str), sep, Append(piece, Head(str)))

Split(str, sep) == SplitFrom(str, sep, <<>>)

Contains(str, c) == \E i \in 1..Len(str) : str[i] = c

(***************************************************************************)
(* api/sms_api.py: _clean_mobile_number.  The result None (a falsy input)   *)
(* and the result "" are both dropped by the caller's `if cleaned`; both    *)
(* are the empty string here.                                               *)
(***************************************************************************)
CleanMobileNumber(number) ==
  IF number = <<>> THEN <<>>
  ELSE
    LET cleaned == SelectSeq(number, IsDigit) IN
    IF StartsWith(cleaned, <<"2", "5", "2">>) THEN cleaned
    ELSE IF StartsWith(cleaned, <<"0">>) THEN <<"2", "5", "2">> \o Tail(cleaned)
    ELSE IF Len(cleaned) = 9 THEN <<"2", "5", "2">> \o cleaned
    ELSE cleaned

\* The cleaning loop of send_sms and send_async_sms (lines 36-41, 145-150).
RECURSIVE CleanNumbers(_)
CleanNumbers(mobile_numbers) ==
  IF mobile_numbers = <<>> THEN <<>>
  ELSE LET cleaned == CleanMobileNumber(Head(mobile_numbers)) IN
       (IF cleaned # <<>> THEN <<cleaned>> ELSE <<>>) \o CleanNumbers(Tail(mobile_numbers))

(***************************************************************************)
(* api/sms_api.py: send_sms.                                               *)
(***************************************************************************)
\* One entry of send_bulk_sms_individual / send_bulk_sms_basic_auth: the status
\* is "error" only when the send raised.
BulkEntry(mobile, sent) ==
  IF sent.raised
  THEN [mobile |-> mobile, status |-> "error", error |-> "exception"]
  ELSE [mobile |-> mobile, status |-> "success", response |-> sent.value]

\* Lines 94-98: the mobiles of the results whose "status" is "error".
RECURSIVE FailedMessages(_)
FailedMessages(results) ==
  IF results = <<>> THEN <<>>
  ELSE (IF Get(Head(results), "status") = "error"
        THEN <<IF "mobile" \in DOMAIN Head(results)
               THEN Head(results)["mobile"] ELSE <<"Unknown">> >>
        ELSE <<>>) \o FailedMessages(Tail(results))

\* Lines 100-114: what send_sms returns once the SMS Log is inserted.
SendSmsReturn(cleaned_numbers, results) ==
  LET failed_messages == FailedMessages(results) IN
  IF failed_messages # <<>>
  THEN [success |-> FALSE, error |-> "Failed to send",
        failed_numbers |-> failed_messages, results |-> results]
  ELSE [success |-> TRUE, recipients |-> Len(cleaned_numbers), results |-> results]

ErrorReturnAsSuccess(msg) == [success |-> TRUE, error |-> msg]

\* Lines 116-118 and the early returns: success False and an error message.
ErrorReturn(msg) == [success |-> FALSE, error |-> msg]

(***************************************************************************)
(* api/sms_api.py and utils/sms_utils.py: get_sms_balance (the two copies   *)
(* are the same code).  balance_data is what check_sms_balance returned, a  *)
(* dict of _handle_api_response.                                            *)
(***************************************************************************)
GetSmsBalanceReturn(balance_data) ==
  IF "balance" \in DOMAIN balance_data
  THEN [success |-> TRUE, balance |-> balance_data["balance"]]
  ELSE IF "message" \in DOMAIN balance_data /\ balance_data["message"].t = "dict"
  THEN IF "balance" \in DOMAIN balance_data["message"].d
       THEN [success |-> TRUE, balance |-> balance_data["message"].d["balance"]]
       ELSE [success |-> FALSE, error |-> "Unexpected API response format"]
  ELSE IF Get(balance_data, "ResponseCode") = "200"
  THEN [success |-> TRUE,
        balance |-> IF "Balance" \in DOMAIN balance_data
                    THEN balance_data["Balance"] ELSE "N/A"]
  ELSE [success |-> FALSE, error |-> "Unexpected API response format"]

GetSmsBalance(token_ok, answers) ==
  LET checked == CheckSmsBalance(token_ok, answers) IN
  IF checked.raised
  THEN ErrorReturn("exception")
  ELSE GetSmsBalanceReturn(checked.value)

(***************************************************************************)
(* utils/sms_utils.py: send_sms_via_hormuud.                               *)
(***************************************************************************)
\* Lines 18-34: receiver_list as a list.  A str that json.loads rejects is split
\* on newlines, else on commas, else taken whole; a str of digits that
\* json.loads reads as a number becomes a one-element list and str() gives the
\* digits back.  (A str holding a JSON array is the list it denotes.)
ReceiverList(receiver_list) ==
  IF receiver_list.t = "list" THEN receiver_list.items
  ELSE IF Contains(receiver_list.s, "\n") THEN Split(receiver_list.s, "\n")
  ELSE IF Contains(receiver_list.s, ",") THEN Split(receiver_list.s, ",")
  ELSE <<receiver_list.s>>

\* Lines 44-49: the stripped non-blank entries.
RECURSIVE ValidNumbers(_)
ValidNumbers(list) ==
  IF list = <<>> THEN <<>>
  ELSE (IF Head(list) # <<>> /\ Strip(Head(list)) # <<>>
        THEN <<Strip(Head(list))>> ELSE <<>>) \o ValidNumbers(Tail(list))

ViaRecordDropsExceptions(results, mobile, sent) ==
  IF sent.raised THEN results
  ELSE IF sent.value["success"]
  THEN [results EXCEPT !.successful =
          Append(@, [mobile |-> mobile, response |-> sent.value])]
  ELSE [results EXCEPT !.failed =
          Append(@, [mobile |-> mobile, response |-> sent.value])]

\* Lines 57-126, one pass of the loop: the number goes to 'successful' when the
\* result's success is true, to 'failed' when it is not or the send raised.
ViaRecord(results, mobile, sent) ==
  IF sent.raised
  THEN [results EXCEPT !.failed =
          Append(@, [mobile |-> mobile, error |-> "Failed to send SMS"])]
  ELSE IF sent.value["success"]
  THEN [results EXCEPT !.successful =
          Append(@, [mobile |-> mobile, response |-> sent.value])]
  ELSE [results EXCEPT !.failed =
          Append(@, [mobile |-> mobile, response |-> sent.value])]

(***************************************************************************)
(* Documents and values of the rules engine.  A document is a record of    *)
(* its fields; doc.get(field) of a field the document lacks is None.  A     *)
(* value is tagged with its Python type.                                    *)
(***************************************************************************)
VNone == [t |-> "none"]
VInt(n) == [t |-> "int", v |-> n]
VStr(x) == [t |-> "str", v |-> x]
VList(items) == [t |-> "list", v |-> items]
\* A compare value written 'doc.<field>'.
VDocRef(field) == [t |-> "docref", v |-> field]

NoDoc == [doctype |-> "none"]

IntFields == {"docstatus", "grand_total"}

DocGet(doc, field) ==
  IF field \notin DOMAIN doc THEN VNone
  ELSE IF field \in IntFields THEN VInt(doc[field])
  ELSE VStr(doc[field])

(***************************************************************************)
(* custom_notification.py: has_actual_changes.                             *)
(***************************************************************************)
IgnoreFields ==
  {"modified", "modified_by", "amended_from", "_user_tags", "_comments",
   "_assign", "_liked_by"}

HasActualChanges(doc, doc_before_save) ==
  \E field \in DOMAIN doc \ IgnoreFields :
    DocGet(doc, field) # DocGet(doc_before_save, field)

(***************************************************************************)
(* custom_notification.py: check_condition, evaluate_dict_condition and     *)
(* evaluate_expression_condition.  A condition string is kept by what it    *)
(* parses to: blank, a JSON object (a sequence of [field, expected]         *)
(* entries, expected a value or a two-element list [op, value]), text in    *)
(* braces that is no JSON, or a Python expression (here a comparison of a   *)
(* field of doc).  An evaluation yields "true", "false" or "raise".         *)
(***************************************************************************)
Pair(op, value) == [t |-> "pair", op |-> op, value |-> value]

CondBlank == [kind |-> "blank"]
CondBadJson == [kind |-> "badjson"]
CondJson(entries) == [kind |-> "json", entries |-> entries]
CondExpr(field, op, value) ==
  [kind |-> "expr", field |-> field, op |-> op, value |-> value]

OperatorMap == {">", ">=", "<", "<=", "==", "!=", "in", "not in"}

\* operator_map[op](a, b) for values that are None, numbers, strings or lists.
\* An ordering of values that are not both numbers raises TypeError (no two
\* strings are ordered here); `in` and `not in` on a value that has no
\* __contains__ are answered with False and True (lines 227-228); in a string
\* only a string can be looked for (anything else raises TypeError), and no
\* string of the model is part of another.
ApplyOperator(op, a, b) ==
  CASE op = "==" -> IF a = b THEN "true" ELSE "false"
    [] op = "!=" -> IF a # b THEN "true" ELSE "false"
    [] op \in {">", ">=", "<", "<="} ->
         IF a.t = "int" /\ b.t = "int"
         THEN IF \/ op = ">" /\ a.v > b.v
                 \/ op = ">=" /\ a.v >= b.v
                 \/ op = "<" /\ a.v < b.v
                 \/ op = "<=" /\ a.v <= b.v
              THEN "true" ELSE "false"
         ELSE "raise"
    [] op = "in" -> IF b.t = "list"
                    THEN (IF a \in b.v THEN "true" ELSE "false")
                    ELSE IF b.t = "str"
                    THEN (IF a.t # "str" THEN "raise"
                          ELSE IF a.v = b.v THEN "true" ELSE "false")
                    ELSE "false"
    [] op = "not in" -> IF b.t = "list"
                        THEN (IF a \notin b.v THEN "true" ELSE "false")
                        ELSE IF b.t = "str"
                        THEN (IF a.t # "str" THEN "raise"
                              ELSE IF a.v # b.v THEN "true" ELSE "false")
                        ELSE "true"

\* Lines 243-246: a 'doc.<field>' compare value is that field of the document.
CompareValue(doc, value) ==
  IF value.t = "docref" THEN DocGet(doc, value.v) ELSE value

\* One entry of the loop of lines 234-257: "true" when it holds.
EvaluateEntry(doc, entry) ==
  LET actual_value == DocGet(doc, entry.field) IN
  IF entry.expected.t = "pair"
  THEN IF entry.expected.op \in OperatorMap
       THEN ApplyOperator(entry.expected.op, actual_value,
                          CompareValue(doc, entry.expected.value))
       ELSE "false"
  ELSE IF actual_value # entry.expected THEN "false" ELSE "true"

RECURSIVE EvaluateDictCondition(_, _)
EvaluateDictCondition(doc, entries) ==
  IF entries = <<>> THEN "true"
  ELSE LET r == EvaluateEntry(doc, Head(entries)) IN
       IF r = "true" THEN EvaluateDictCondition(doc, Tail(entries)) ELSE r

\* frappe.safe_eval of the expression and bool() of its result; an exception is
\* answered with False.
EvaluateExpressionCondition(doc, cond) ==
  ApplyOperator(cond.op, DocGet(doc, cond.field), cond.value) = "true"

\* The body of the try of check_condition (lines 203-208): "true", "false" or
\* "raise".  Text in braces that is no JSON is answered with False by
\* evaluate_dict_condition itself (lines 261-263).
ConditionBody(doc, cond) ==
  CASE cond.kind = "badjson" -> "false"
    [] cond.kind = "json" -> EvaluateDictCondition(doc, cond.entries)
    [] cond.kind = "expr" ->
         IF EvaluateExpressionCondition(doc, cond) THEN "true" ELSE "false"

\* check_condition without the except clause of lines 209-211.
CheckConditionUncaught(doc, cond) ==
  IF cond.kind = "blank" THEN Returned(TRUE)
  ELSE LET r == ConditionBody(doc, cond)
       IN IF r = "raise" THEN Raised ELSE Returned(r = "true")

\* check_condition as a call: what it returns, or that it raises.
CheckConditionCall(doc, cond) ==
  IF cond.kind = "blank" THEN Returned(TRUE)
  ELSE LET r == ConditionBody(doc, cond)
       IN IF r = "raise" THEN Returned(FALSE) ELSE Returned(r = "true")

\* check_condition: an exception of the evaluation is answered with False.
CheckCondition(doc, cond) == CheckConditionCall(doc, cond).value

(***************************************************************************)
(* The User and Has Role tables.                                           *)
(***************************************************************************)
UserTable ==
  [u \in {"Administrator", "a@x", "b@x", "c@x"} |->
     CASE u = "Administrator" -> [enabled |-> 1, mobile_no |-> ""]
       [] u = "a@x" -> [enabled |-> 1, mobile_no |-> "252615"]
       [] u = "b@x" -> [enabled |-> 0, mobile_no |-> "252616"]
       [] u = "c@x" -> [enabled |-> 1, mobile_no |-> ""]]

\* Rows <<parent, role>> of Has Role with parenttype User; "gone@x" is a row
\* whose user no longer exists.
HasRole ==
  {<<"a@x", "Manager">>, <<"b@x", "Manager">>, <<"c@x", "Manager">>,
   <<"a@x", "Accounts">>, <<"gone@x", "Accounts">>,
   <<"Administrator", "System Manager">>, <<"c@x", "System Manager">>,
   <<"b@x", "System Manager">>}

\* The user names in sorted order.
UserOrder == <<"Administrator", "a@x", "b@x", "c@x", "gone@x">>

UserExists(user) == user \in DOMAIN UserTable
UserEnabled(user) == UserExists(user) /\ UserTable[user].enabled = 1

\* sorted(list(users)) of a set of user names.
SortedUsers(S) ==
  LET keep(u) == u \in S IN SelectSeq(UserOrder, keep)

(***************************************************************************)
(* custom_notification.py: get_recipients.                                 *)
(***************************************************************************)
\* The users one recipient rule adds (lines 288-329).
RuleUsers(rule) ==
  IF rule.recipient_type = "" \/ rule.recipient_value = "" THEN {}
  ELSE IF rule.recipient_type = "User"
  THEN IF UserEnabled(rule.recipient_value) THEN {rule.recipient_value} ELSE {}
  ELSE IF rule.recipient_type = "Role"
  THEN {row[1] : row \in {r \in HasRole : r[2] = rule.recipient_value
                                          /\ UserEnabled(r[1])}}
  ELSE {}

RECURSIVE RecipientSet(_)
RecipientSet(recipient_rules) ==
  IF recipient_rules = <<>> THEN {}
  ELSE RuleUsers(Head(recipient_rules)) \cup RecipientSet(Tail(recipient_rules))

\* A get_recipients that gathers a list instead of a set.
RECURSIVE GetRecipientsNoSet(_)
GetRecipientsNoSet(recipient_rules) ==
  IF recipient_rules = <<>> THEN <<>>
  ELSE SortedUsers(RuleUsers(Head(recipient_rules)))
         \o GetRecipientsNoSet(Tail(recipient_rules))

GetRecipients(recipient_rules) == SortedUsers(RecipientSet(recipient_rules))

(***************************************************************************)
(* custom_notification.py: send_notification.  st is the state the call     *)
(* acts on: the Notification Logs inserted in the open transaction          *)
(* (pending), the real-time events published with after_commit=True and     *)
(* waiting for the commit (queue), what has been delivered to users          *)
(* (deliveries) and the next free log name.  frappe.sendmail(now=True) and   *)
(* frappe.send_sms deliver at the call.                                      *)
(***************************************************************************)
Channels == {"System Notification", "Email", "Sms"}

SendNotificationEmailAlso(st, doc, user, subject, channel, sms_on, ghost) ==
  LET log_name == st.next_log
      s1 == [st EXCEPT
               !.pending = Append(@, [name |-> log_name, document_type |-> doc.doctype,
                                      document_name |-> doc.name, for_user |-> user,
                                      subject |-> subject, read |-> 0] @@ ghost),
               !.next_log = @ + 1,
               !.queue = Append(@, [kind |-> "realtime", event |-> "new_notice",
                                    to |-> user, log |-> log_name])]
      s2 == [s1 EXCEPT !.deliveries =
                 Append(@, [kind |-> "email", to |-> user, log |-> log_name])]
  IN
  IF channel = "Sms" /\ sms_on /\ UserTable[user].mobile_no # ""
  THEN [s2 EXCEPT !.deliveries =
          Append(@, [kind |-> "sms", to |-> UserTable[user].mobile_no,
                     log |-> log_name])]
  ELSE s2

SendNotification(st, doc, user, subject, channel, sms_on, ghost) ==
  LET log_name == st.next_log
      s1 == [st EXCEPT
               !.pending = Append(@, [name |-> log_name, document_type |-> doc.doctype,
                                      document_name |-> doc.name, for_user |-> user,
                                      subject |-> subject, read |-> 0] @@ ghost),
               !.next_log = @ + 1,
               !.queue = Append(@, [kind |-> "realtime", event |-> "new_notice",
                                    to |-> user, log |-> log_name])]
  IN
  IF channel = "Email"
  THEN [s1 EXCEPT !.deliveries =
          Append(@, [kind |-> "email", to |-> user, log |-> log_name])]
  ELSE IF channel = "Sms"
  THEN IF sms_on /\ UserTable[user].mobile_no # ""
       THEN [s1 EXCEPT !.deliveries =
               Append(@, [kind |-> "sms", to |-> UserTable[user].mobile_no,
                          log |-> log_name])]
       ELSE s1
  ELSE s1

(***************************************************************************)
(* custom_notification.py: evaluate_custom_notifications.                  *)
(***************************************************************************)
\* event_map.get(method)
EventMap(method) ==
  CASE method = "on_update" -> "Save"
    [] method = "on_submit" -> "Submit"
    [] method = "on_cancel" -> "Cancel"
    [] OTHER -> None

\* Lines 143-144: send_notification for each recipient, in order; `calls` notes
\* each call with the log name it is about to use.
RECURSIVE SendToAll(_, _, _, _, _, _)
SendToAll(st, doc, recipients, cn, sms_on, ghost) ==
  IF recipients = <<>> THEN st
  ELSE
    LET user == Head(recipients)
        called == [st EXCEPT !.calls =
                     Append(@, [firing |-> ghost.firing, rule |-> cn.name,
                                user |-> user, channel |-> cn.channel,
                                log |-> st.next_log])]
    IN SendToAll(SendNotification(called, doc, user, <<cn.name>>, cn.channel, sms_on,
                                  [rule |-> cn.name] @@ ghost),
                 doc, Tail(recipients), cn, sms_on, ghost)

\* Lines 105-147: the loop over the rules found.
RECURSIVE EvaluateRules(_, _, _, _, _, _, _)
EvaluateRules(st, doc, doc_before_save, send_on_event, cns, sms_on, ghost) ==
  IF cns = <<>> THEN st
  ELSE
    LET cn == Head(cns)
        seen == [st EXCEPT !.evaluated = @ \cup {cn.name}]
        recipients == GetRecipients(cn.recipients)
        next ==
          IF ~CheckCondition(doc, cn.condition) THEN seen
          ELSE IF /\ send_on_event = "Save" /\ doc_before_save # NoDoc
                  /\ ~HasActualChanges(doc, doc_before_save)
          THEN seen
          ELSE IF recipients = <<>> THEN seen
          ELSE SendToAll([seen EXCEPT !.fired = @ \cup {cn.name}],
                         doc, recipients, cn, sms_on, ghost)
    IN EvaluateRules(next, doc, doc_before_save, send_on_event, Tail(cns), sms_on, ghost)

MatchingRulesAnyState(all_rules, doctype, send_on_event) ==
  LET match(cn) == cn.document_type = doctype /\ cn.send_on = send_on_event
  IN SelectSeq(all_rules, match)

\* Lines 93-101: the enabled rules of the document's type and the event.
MatchingRules(all_rules, doctype, send_on_event) ==
  LET match(cn) == /\ cn.enabled = 1
                   /\ cn.document_type = doctype
                   /\ cn.send_on = send_on_event
  IN SelectSeq(all_rules, match)

\* evaluate_custom_notifications without the return of lines 88-90.
EvaluateCustomNotificationsNoSkip(st, all_rules, doc, method, doc_before_save, sms_on, ghost) ==
  LET send_on_event == EventMap(method) IN
  IF send_on_event = None THEN st
  ELSE EvaluateRules(st, doc, doc_before_save, send_on_event,
                     MatchingRules(all_rules, doc.doctype, send_on_event),
                     sms_on, ghost)

EvaluateCustomNotifications(st, all_rules, doc, method, doc_before_save, sms_on, ghost) ==
  LET send_on_event == EventMap(method) IN
  IF send_on_event = None THEN st
  ELSE IF /\ send_on_event = "Save" /\ doc_before_save # NoDoc
          /\ doc.docstatus # doc_before_save.docstatus
  THEN st
  ELSE EvaluateRules(st, doc, doc_before_save, send_on_event,
                     MatchingRules(all_rules, doc.doctype, send_on_event),
                     sms_on, ghost)

(***************************************************************************)
(* State.                                                                  *)
(***************************************************************************)
VARIABLES
  \* _post_with_retry: the `retries` argument and the locals of the call
  retries, locals,
  \* the whitelisted SMS call in progress (its arguments, its position, the
  \* results it has gathered, what it returned) with, as history, what each send
  \* of the service did (`sent`); the number of SMS Log documents; the setting
  \* Custom Sms Settings.sms_character_limit
  call, sms_logs, sms_character_limit,
  \* the Custom Notification rules (each with its recipient rows) and the
  \* setting SMS Settings.sms_enabled
  rules, sms_enabled,
  \* the committed Notification Logs and the next free log name
  logs, next_log,
  \* the open transaction: the logs inserted and the real-time events
  \* published with after_commit=True; whether a transaction is open
  pending, realtime_queue, in_request,
  \* what has reached users: real-time events, emails and SMS, in order
  deliveries,
  \* history: the calls of send_notification, the <<firing, rule>> pairs that
  \* reached the send loop, the last handler run, the number of handler runs,
  \* the names of the logs a rollback discarded
  calls, fired, last, requests, rolled_back,
  \* the scheduled jobs: the date, the Sales Invoice and Bin rows their queries
  \* read, and as history the number of job runs and the last run
  today, invoices, bins, runs, last_run,
  \* send_bulk_sms: the call in progress with, as history, the token requests
  \* and the bulk submissions it made
  bulk,
  \* the background jobs send_async_sms has enqueued
  queued_jobs,
  \* the Daily Cash Flow report: its filters, the GL Entry rows of its query,
  \* the rows and the summary it returned
  report,
  \* one call of check_condition: the document, the condition, the outcome
  probe,
  \* the concurrent runs of check_and_notify_overdue_invoices: for each its
  \* position, the invoices still to visit and its open transaction
  workers

retryVars == <<retries, locals>>
smsVars == <<call, sms_logs, sms_character_limit>>
notifyVars ==
  <<rules, sms_enabled, logs, next_log, pending, realtime_queue, deliveries,
    calls, fired, last, requests, in_request, rolled_back>>
jobVars == <<today, invoices, bins, runs, last_run>>
otherVars == <<report, probe, workers>>
extraVars == <<bulk, queued_jobs, otherVars>>
vars ==
  <<retries, locals, call, sms_logs, sms_character_limit, notifyVars, jobVars,
    extraVars>>

NoReturn == [none |-> TRUE]

CallIdle ==
  [op |-> "idle", pc |-> "idle", given |-> NoReturn, numbers |-> <<>>,
   message_len |-> 0, use_basic_auth |-> FALSE, results |-> <<>>, sent |-> <<>>,
   ret |-> NoReturn]

IdleRetry == retries = 0 /\ locals = [LocalsInit EXCEPT !.pc = "idle"]
IdleSms == call = CallIdle /\ sms_logs = 0 /\ sms_character_limit = 1

NoHandler ==
  [firing |-> 0, method |-> "none", doctype |-> "none", evaluated |-> {},
   sent |-> 0, status |-> "none"]

EmptyNotify ==
  /\ logs = {} /\ next_log = 1
  /\ pending = <<>> /\ realtime_queue = <<>> /\ in_request = FALSE
  /\ deliveries = <<>>
  /\ calls = <<>> /\ fired = {} /\ last = NoHandler /\ requests = 0
  /\ rolled_back = {}

IdleNotify == rules = <<>> /\ sms_enabled = FALSE /\ EmptyNotify

NoRun == [run |-> 0, job |-> "none", found |-> {}, skipped |-> {}, sent |-> {}]

BulkIdle ==
  [pc |-> "idle", messages |-> <<>>, token_requests |-> 0, submissions |-> <<>>,
   results |-> <<>>]

ReportIdle == [pc |-> "idle"]

ProbeIdle == [pc |-> "idle"]

NoWorkers == <<>>

IdleOther == report = ReportIdle /\ probe = ProbeIdle /\ workers = NoWorkers

IdleExtra ==
  /\ bulk = BulkIdle
  /\ queued_jobs = 0
  /\ IdleOther

IdleJobs ==
  /\ today = 1
  /\ invoices = <<>>
  /\ bins = <<>>
  /\ runs = 0
  /\ last_run = NoRun

(***************************************************************************)
(* SpecRetry: calls of _post_with_retry, one loop iteration per step.      *)
(***************************************************************************)
RetryCall(r) ==
  /\ locals.pc = "idle"
  /\ retries' = r
  /\ locals' = LocalsInit
  /\ UNCHANGED <<smsVars, notifyVars, jobVars, extraVars>>

RetryAttempt(ans) ==
  /\ locals.pc = "loop"
  /\ locals' = LoopIteration(locals, ans, retries)
  /\ UNCHANGED <<retries, smsVars, notifyVars, jobVars, extraVars>>

InitRetry == IdleRetry /\ IdleSms /\ IdleNotify /\ IdleJobs /\ IdleExtra

NextRetry ==
  \/ \E r \in 0..MaxRetries : RetryCall(r)
  \/ \E ans \in Answers : RetryAttempt(ans)

SpecRetry == InitRetry /\ [][NextRetry]_vars

(***************************************************************************)
(* Properties of _post_with_retry (SpecRetry).                             *)
(***************************************************************************)
Answered200(ans) == ans.kind = "response" /\ ans.status = 200

\* C6: within one call, once an attempt has been answered with HTTP status 200,
\* whatever the body, no further POST is made: only the last POST of a call can
\* have been answered with a 200.
C6_NoPostAfter200 ==
  \A i \in 1..Len(locals.posts) :
    Answered200(locals.posts[i]) => i = Len(locals.posts)

C19_BackoffWaits ==
  /\ \A i \in 1..Len(locals.waits) :
       /\ locals.waits[i] = Min(Pow2(i - 1), 5)
       /\ i <= Len(locals.posts)
       /\ ~Answered200(locals.posts[i])
  /\ Len(locals.waits) <= retries
  /\ locals.pc \in {"returned", "raised"} =>
       Len(locals.waits) = Len(locals.posts) - 1

\* The waits of C19 but for the one after a 200: the schedule 1, 2, 4, 5 and no
\* wait after the last attempt.
BackoffSchedule ==
  /\ \A i \in 1..Len(locals.waits) :
       /\ locals.waits[i] = Min(Pow2(i - 1), 5)
       /\ i <= Len(locals.posts)
  /\ Len(locals.waits) <= retries
  /\ locals.pc \in {"returned", "raised"} =>
       Len(locals.waits) = Len(locals.posts) - 1

(***************************************************************************)
(* SpecSmsApi: the whitelisted calls of api/sms_api.py.  send_sms runs in   *)
(* steps: the validation and cleaning, then one send per step, then the     *)
(* SMS Log and the verdict.                                                 *)
(***************************************************************************)
ApiRaws ==
  {<<>>, <<"x">>, <<"0", "6", "1">>, <<"2", "5", "2", "6">>,
   <<"6", "1", "5", "0", "0", "0", "1", "1", "1">>}

\* mobile_numbers: one str, or a list of at most MaxNumbers of them.
ApiInputs ==
  {[t |-> "str", s |-> n] : n \in ApiRaws}
  \cup {[t |-> "list", items |-> l] :
          l \in UNION {[1..k -> ApiRaws] : k \in 0..MaxNumbers}}

\* send_sms, lines 24-47: the early returns, or on to the sends.
ApiSendSms(mobile_numbers, message_len, use_basic_auth) ==
  /\ call.pc = "idle"
  /\ LET start == [CallIdle EXCEPT !.op = "send_sms", !.message_len = message_len,
                                   !.given = mobile_numbers,
                                   !.use_basic_auth = use_basic_auth]
         empty == IF mobile_numbers.t = "str" THEN mobile_numbers.s = <<>>
                  ELSE mobile_numbers.items = <<>>
         list == IF mobile_numbers.t = "str" THEN <<mobile_numbers.s>>
                 ELSE mobile_numbers.items
         cleaned_numbers == CleanNumbers(list)
     IN
     call' =
       IF empty
       THEN [start EXCEPT !.pc = "done",
                          !.ret = ErrorReturn("Mobile number(s) are required")]
       ELSE IF message_len = 0
       THEN [start EXCEPT !.pc = "done",
                          !.ret = ErrorReturn("Message content is required")]
       ELSE IF cleaned_numbers = <<>>
       THEN [start EXCEPT !.pc = "done",
                          !.ret = ErrorReturn("No valid mobile numbers provided")]
       ELSE [start EXCEPT !.pc = "sending", !.numbers = cleaned_numbers]
  /\ UNCHANGED <<sms_logs, sms_character_limit, retryVars, notifyVars, jobVars, extraVars>>

\* The send one number gets from the service, by the authentication in use.
ServiceSend(message_len, use_basic_auth, token_ok, answers) ==
  IF use_basic_auth
  THEN SendSmsBasicAuth(message_len, sms_character_limit, answers)
  ELSE SendSms(message_len, sms_character_limit, token_ok, answers)

\* Lines 51-63 and 79-118: the single-number path to its return.  An exception
\* of the send reaches the handler's except clause.
ApiSendSingle(token_ok, answers) ==
  /\ call.op = "send_sms" /\ call.pc = "sending" /\ Len(call.numbers) = 1
  /\ LET sent == ServiceSend(call.message_len, call.use_basic_auth, token_ok, answers)
         noted == [call EXCEPT !.sent = Append(@, sent), !.pc = "done"]
     IN
     IF sent.raised
     THEN /\ call' = [noted EXCEPT !.ret = ErrorReturn("exception")]
          /\ UNCHANGED sms_logs
     ELSE /\ call' = [noted EXCEPT !.results = <<sent.value>>,
                                   !.ret = SendSmsReturn(call.numbers, <<sent.value>>)]
          /\ sms_logs' = sms_logs + 1
  /\ UNCHANGED <<sms_character_limit, retryVars, notifyVars, jobVars, extraVars>>

\* Lines 64-77: one pass of the loop of send_bulk_sms_individual or
\* send_bulk_sms_basic_auth.
ApiSendBulkNext(token_ok, answers) ==
  /\ call.op = "send_sms" /\ call.pc = "sending" /\ Len(call.numbers) > 1
  /\ Len(call.results) < Len(call.numbers)
  /\ LET mobile == call.numbers[Len(call.results) + 1]
         sent == ServiceSend(call.message_len, call.use_basic_auth, token_ok, answers)
     IN
     call' = [call EXCEPT !.sent = Append(@, sent),
                          !.results = Append(@, BulkEntry(mobile, sent))]
  /\ UNCHANGED <<sms_logs, sms_character_limit, retryVars, notifyVars, jobVars, extraVars>>

\* Lines 79-114 after the bulk sends: the SMS Log and the verdict.
ApiSendBulkReturn ==
  /\ call.op = "send_sms" /\ call.pc = "sending" /\ Len(call.numbers) > 1
  /\ Len(call.results) = Len(call.numbers)
  /\ call' = [call EXCEPT !.pc = "done",
                          !.ret = SendSmsReturn(call.numbers, call.results)]
  /\ sms_logs' = sms_logs + 1
  /\ UNCHANGED <<sms_character_limit, retryVars, notifyVars, jobVars, extraVars>>

\* get_sms_balance
ApiGetSmsBalance(token_ok, answers) ==
  /\ call.pc = "idle"
  /\ call' = [CallIdle EXCEPT !.op = "balance", !.pc = "done",
                              !.sent = <<CheckSmsBalance(token_ok, answers)>>,
                              !.ret = GetSmsBalance(token_ok, answers)]
  /\ UNCHANGED <<sms_logs, sms_character_limit, retryVars, notifyVars, jobVars, extraVars>>

InitSms ==
  /\ call = CallIdle
  /\ sms_logs = 0
  /\ sms_character_limit \in 1..MaxMessageLen
  /\ IdleRetry
  /\ IdleNotify
  /\ IdleJobs
  /\ IdleExtra

NextSmsApi ==
  \/ \E m \in ApiInputs, len \in 0..MaxMessageLen, basic \in BOOLEAN :
       ApiSendSms(m, len, basic)
  \/ \E token_ok \in BOOLEAN, answers \in Scripts : ApiSendSingle(token_ok, answers)
  \/ \E token_ok \in BOOLEAN, answers \in Scripts : ApiSendBulkNext(token_ok, answers)
  \/ ApiSendBulkReturn
  \/ \E token_ok \in BOOLEAN, answers \in Scripts : ApiGetSmsBalance(token_ok, answers)

SpecSmsApi == InitSms /\ [][NextSmsApi]_vars

(***************************************************************************)
(* Properties of api send_sms and get_sms_balance (SpecSmsApi).            *)
(***************************************************************************)
\* The gateway accepted the request of a send: the call got a response whose
\* body is an object with ResponseCode "200".
GatewayAccepted(sent) ==
  /\ ~sent.raised
  /\ sent.value["raw_response"].t = "dict"
  /\ Get(sent.value["raw_response"].d, "ResponseCode") = "200"

InSeq(x, seq) == \E i \in 1..Len(seq) : seq[i] = x

\* C8: send_sms returns success=True only if the gateway accepted the message
\* (ResponseCode "200") for every one of the cleaned numbers.
C8_SuccessOnlyIfAllAccepted ==
  (call.op = "send_sms" /\ call.pc = "done" /\ call.numbers # <<>>) =>
    (call.ret["success"] =>
       \A i \in 1..Len(call.sent) : GatewayAccepted(call.sent[i]))

\* C8, its second sentence: when the send to a number was rejected by the gateway
\* or raised, send_sms returns success=False and lists that number in
\* failed_numbers.
C8_FailuresListed ==
  (call.op = "send_sms" /\ call.pc = "done" /\ call.numbers # <<>>) =>
    \A i \in 1..Len(call.sent) :
      ~GatewayAccepted(call.sent[i]) =>
        /\ ~call.ret["success"]
        /\ "failed_numbers" \in DOMAIN call.ret
        /\ InSeq(call.numbers[i], call.ret["failed_numbers"])

\* C9: whenever the gateway answers the balance request with ResponseCode "200",
\* get_sms_balance returns success=True with a balance; it returns
\* success=False only when the request failed or the answer is no success.
C9_BalanceReturned ==
  (call.op = "balance" /\ call.pc = "done") =>
    /\ GatewayAccepted(call.sent[1]) =>
         call.ret["success"] /\ "balance" \in DOMAIN call.ret
    /\ ~call.ret["success"] => ~GatewayAccepted(call.sent[1])

(***************************************************************************)
(* SpecHormuud: send_sms_via_hormuud, one number of the loop per step.     *)
(***************************************************************************)
ViaRaws == {<<>>, <<" ">>, <<"6", "1">>, <<" ", "6", "2">>}

\* receiver_list: a list of at most MaxNumbers entries, or one str.
ViaInputs ==
  {[t |-> "list", items |-> l] :
     l \in UNION {[1..k -> ViaRaws] : k \in 0..MaxNumbers}}
  \cup {[t |-> "str", s |-> x] :
          x \in {<<"6", "1">>, <<"6", "1", ",", "6", "2">>,
                 <<"6", "1", "\n", " ", "6", "2">>, <<",">>}}

\* Lines 11-54: the list of valid numbers; frappe.throw when there is none (the
\* outer except clause throws again, so the call raises).
ViaHormuud(receiver_list, message_len) ==
  /\ call.pc = "idle"
  /\ LET start == [CallIdle EXCEPT !.op = "via_hormuud", !.message_len = message_len,
                                   !.use_basic_auth = TRUE]
         valid_numbers == ValidNumbers(ReceiverList(receiver_list))
     IN
     call' =
       IF valid_numbers = <<>>
       THEN [start EXCEPT !.pc = "done", !.ret = [raised |-> TRUE]]
       ELSE [start EXCEPT !.pc = "sending", !.numbers = valid_numbers,
                          !.results = [successful |-> <<>>, failed |-> <<>>]]
  /\ UNCHANGED <<sms_logs, sms_character_limit, retryVars, notifyVars, jobVars, extraVars>>

\* Lines 57-126: the send to the next number and its record; create_sms_log
\* inserts and commits an SMS Log, or swallows its own failure.
ViaHormuudNext(answers, log_ok) ==
  /\ call.op = "via_hormuud" /\ call.pc = "sending"
  /\ Len(call.sent) < Len(call.numbers)
  /\ LET mobile == call.numbers[Len(call.sent) + 1]
         sent == SendSmsBasicAuth(call.message_len, sms_character_limit, answers)
     IN
     call' = [call EXCEPT !.sent = Append(@, [mobile |-> mobile, sent |-> sent]),
                          !.results = ViaRecord(@, mobile, sent)]
  /\ sms_logs' = IF log_ok THEN sms_logs + 1 ELSE sms_logs
  /\ UNCHANGED <<sms_character_limit, retryVars, notifyVars, jobVars, extraVars>>

\* Lines 128-138: the loop is over, the results are returned.
ViaHormuudReturn ==
  /\ call.op = "via_hormuud" /\ call.pc = "sending"
  /\ Len(call.sent) = Len(call.numbers)
  /\ call' = [call EXCEPT !.pc = "done", !.ret = call.results]
  /\ UNCHANGED <<sms_logs, sms_character_limit, retryVars, notifyVars, jobVars, extraVars>>

NextHormuud ==
  \/ \E l \in ViaInputs, len \in 0..MaxMessageLen : ViaHormuud(l, len)
  \/ \E answers \in Scripts, log_ok \in BOOLEAN : ViaHormuudNext(answers, log_ok)
  \/ ViaHormuudReturn

SpecHormuud == InitSms /\ [][NextHormuud]_vars

(***************************************************************************)
(* Properties of send_sms_via_hormuud (SpecHormuud).                       *)
(***************************************************************************)
\* The mobiles of a list of entries, in order.
Mobiles(entries) == [i \in 1..Len(entries) |-> entries[i].mobile]

SentOk(e) == ~e.sent.raised /\ e.sent.value["success"]
SentNotOk(e) == ~SentOk(e)

\* C10: the numbers are sent to one by one in list order (the sends made so far
\* are to the first numbers of the list, one send each), a send that fails or
\* raises does not end the loop (the call returns only when every number has
\* had its send), and every number sent to is in exactly one of 'successful'
\* and 'failed': 'successful' holds, in order, the numbers whose send returned a
\* result with success true, 'failed' holds the others.
C10_EachNumberTrackedOnce ==
  (call.op = "via_hormuud" /\ call.numbers # <<>>) =>
    /\ Len(call.sent) <= Len(call.numbers)
    /\ Mobiles(call.sent) = SubSeq(call.numbers, 1, Len(call.sent))
    /\ call.pc = "done" =>
         /\ Len(call.sent) = Len(call.numbers)
         /\ call.ret = call.results
    /\ Mobiles(call.results.successful) = Mobiles(SelectSeq(call.sent, SentOk))
    /\ Mobiles(call.results.failed) = Mobiles(SelectSeq(call.sent, SentNotOk))
    /\ Len(call.results.successful) + Len(call.results.failed) = Len(call.sent)

\* A call has returned after a first send that raised, a second that the gateway
\* accepted.
C10_Witness ==
  /\ call.op = "via_hormuud" /\ call.pc = "done"
  /\ Len(call.numbers) >= 2
  /\ call.sent[1].sent.raised
  /\ SentOk(call.sent[2])
  /\ Len(call.ret.successful) = 1


(***************************************************************************)
(* SpecNotify: the rules engine.  A document hook runs                      *)
(* evaluate_custom_notifications inside the transaction of its request,     *)
(* which the framework then commits or rolls back;                          *)
(* mark_notification_as_read is a request of its own.                       *)
(***************************************************************************)
MaxRequests == 2

Recipient(type, value) == [recipient_type |-> type, recipient_value |-> value]

RecipientLists ==
  {<<Recipient("User", "a@x"), Recipient("Role", "Manager"),
     Recipient("Role", "Accounts")>>,
   <<Recipient("User", "b@x"), Recipient("", "Manager")>>}

\* A rule on Sales Invoice whose settings vary.
FirstRules ==
  {[name |-> "R1", enabled |-> e, document_type |-> "Sales Invoice",
    send_on |-> ev, channel |-> ch,
    condition |-> CondJson(<<[field |-> "grand_total",
                              expected |-> Pair(">", VInt(500))]>>),
    recipients |-> rs] :
     e \in {0, 1}, ev \in {"Save", "Submit", "Cancel"}, ch \in Channels,
     rs \in RecipientLists}

SecondRules ==
  {[name |-> "R2", enabled |-> 1, document_type |-> "Item", send_on |-> "Save",
    channel |-> "Sms", condition |-> CondExpr("disabled", "==", VInt(0)),
    recipients |-> <<Recipient("Role", "System Manager"),
                     Recipient("User", "c@x"), Recipient("User", "nobody@x")>>],
   [name |-> "R2", enabled |-> 1, document_type |-> "Sales Invoice",
    send_on |-> "Save", channel |-> "Email", condition |-> CondBlank,
    recipients |-> <<Recipient("Role", "Accounts"), Recipient("User", "a@x")>>]}

Methods == {"on_update", "on_submit", "on_cancel", "on_trash", "after_insert"}

Docs ==
  {[doctype |-> "Sales Invoice", name |-> "SINV-1", docstatus |-> d,
    grand_total |-> g, modified |-> 2] : d \in 0..2, g \in {0, 1000}}
  \cup {[doctype |-> "Item", name |-> "ITEM-1", docstatus |-> 0,
         disabled |-> 0, modified |-> 2]}

\* doc.get_doc_before_save(): nothing (a new document), the same values saved
\* again, another status, or another value of a field.
Befores(doc) ==
  {NoDoc, [doc EXCEPT !.modified = 1],
   [doc EXCEPT !.modified = 1, !.docstatus = (@ + 2) % 3]}
  \cup (IF "grand_total" \in DOMAIN doc
        THEN {[doc EXCEPT !.modified = 1, !.grand_total = 500]} ELSE {})

Evaluate(doc, method, doc_before_save) ==
  /\ requests < MaxRequests
  /\ LET firing == requests + 1
         st0 == [pending |-> pending, queue |-> realtime_queue,
                 deliveries |-> deliveries, next_log |-> next_log,
                 calls |-> calls, evaluated |-> {}, fired |-> {}]
         st1 == EvaluateCustomNotifications(st0, rules, doc, method,
                                            doc_before_save, sms_enabled,
                                            [firing |-> firing, method |-> method])
     IN /\ pending' = st1.pending
        /\ realtime_queue' = st1.queue
        /\ deliveries' = st1.deliveries
        /\ next_log' = st1.next_log
        /\ calls' = st1.calls
        /\ fired' = fired \cup {<<firing, n>> : n \in st1.fired}
        /\ last' = [firing |-> firing, method |-> method, doctype |-> doc.doctype,
                    evaluated |-> st1.evaluated,
                    sent |-> Len(st1.calls) - Len(calls), status |-> "none",
                    docstatus_changed |-> /\ doc_before_save # NoDoc
                                          /\ doc.docstatus # doc_before_save.docstatus]
        /\ requests' = firing
  /\ in_request' = TRUE
  /\ UNCHANGED <<rules, sms_enabled, logs, rolled_back, retryVars, smsVars, jobVars, extraVars>>

Range(seq) == {seq[i] : i \in DOMAIN seq}

\* The request ends well: the inserts become durable and the events published
\* with after_commit=True go out.
Commit ==
  /\ in_request
  /\ logs' = logs \cup Range(pending)
  /\ deliveries' = deliveries \o realtime_queue
  /\ pending' = <<>>
  /\ realtime_queue' = <<>>
  /\ in_request' = FALSE
  /\ UNCHANGED <<rules, sms_enabled, next_log, calls, fired, last, requests,
                 rolled_back, retryVars, smsVars, jobVars, extraVars>>

\* The request fails: the inserts and the events waiting for the commit are
\* dropped.
Rollback ==
  /\ in_request
  /\ rolled_back' = rolled_back \cup {l.name : l \in Range(pending)}
  /\ pending' = <<>>
  /\ realtime_queue' = <<>>
  /\ in_request' = FALSE
  /\ UNCHANGED <<rules, sms_enabled, logs, next_log, deliveries, calls, fired,
                 last, requests, retryVars, smsVars, jobVars, extraVars>>

\* frappe.db.set_value with update_modified=True: the write stamps `modified`.
SetValueStamping(log, field, value, update_modified, now) ==
  IF "modified" \in DOMAIN log
  THEN [log EXCEPT ![field] = value, !.modified = now]
  ELSE [log EXCEPT ![field] = value]

\* frappe.db.set_value on one Notification Log; `modified` is stamped only
\* with update_modified.
SetValue(log, field, value, update_modified, now) ==
  IF update_modified /\ "modified" \in DOMAIN log
  THEN [log EXCEPT ![field] = value, !.modified = now]
  ELSE [log EXCEPT ![field] = value]

\* Where a call of mark_notification_as_read can raise after get_doc.
MarkFailures == {"none", "set_value", "commit", "publish"}

\* api/notification.py: mark_notification_as_read.  get_doc raises for a log
\* that does not exist; that and an exception of any later step are answered
\* by the except clause with status 'error'.  A write whose commit failed is
\* not stored; a failed publish leaves the committed write in place.
MarkNotificationAsReadFailing(log_name, fails) ==
  /\ ~in_request
  /\ requests < MaxRequests
  /\ requests' = requests + 1
  /\ IF \E l \in logs : l.name = log_name
     THEN LET notification == CHOOSE l \in logs : l.name = log_name
              user == notification.for_user
          IN /\ logs' = IF fails \in {"set_value", "commit"}
                        THEN logs
                        ELSE (logs \ {notification})
                               \cup {SetValue(notification, "read", 1, FALSE,
                                              requests + 1)}
             /\ deliveries' = IF fails = "none"
                              THEN Append(deliveries,
                                          [kind |-> "realtime",
                                           event |-> "notification_read",
                                           to |-> user, log |-> log_name])
                              ELSE deliveries
             /\ last' = [NoHandler EXCEPT !.firing = requests + 1,
                                          !.method = "mark_notification_as_read",
                                          !.status = IF fails = "none" THEN "success"
                                                     ELSE "error"]
                          @@ [log_name |-> log_name]
     ELSE /\ last' = [NoHandler EXCEPT !.firing = requests + 1,
                                       !.method = "mark_notification_as_read",
                                       !.status = "error"]
                       @@ [log_name |-> log_name]
          /\ UNCHANGED <<logs, deliveries>>
  /\ UNCHANGED <<rules, sms_enabled, next_log, pending, realtime_queue,
                 in_request, calls, fired, rolled_back, retryVars, smsVars, jobVars,
                 extraVars>>

\* The call in which no step after get_doc raises.
MarkNotificationAsRead(log_name) == MarkNotificationAsReadFailing(log_name, "none")

InitNotify ==
  /\ \E r1 \in FirstRules, r2 \in SecondRules : rules = <<r1, r2>>
  /\ sms_enabled \in BOOLEAN
  /\ EmptyNotify
  /\ IdleRetry
  /\ IdleSms
  /\ IdleJobs
  /\ IdleExtra

NextNotify ==
  \/ \E doc \in Docs, method \in Methods :
       \E doc_before_save \in Befores(doc) : Evaluate(doc, method, doc_before_save)
  \/ Commit
  \/ Rollback
  \/ \E log_name \in 1..next_log : MarkNotificationAsRead(log_name)

SpecNotify == InitNotify /\ [][NextNotify]_vars


AllLogs == logs \cup Range(pending)
Published == realtime_queue \o deliveries
RuleNamed(n) == rules[CHOOSE i \in DOMAIN rules : rules[i].name = n]
Count(seq, kind, log_name) ==
  Cardinality({i \in DOMAIN seq : seq[i].kind = kind /\ seq[i].log = log_name})
NewNotices(log_name) ==
  Cardinality({i \in DOMAIN Published :
                 /\ Published[i].kind = "realtime"
                 /\ Published[i].event = "new_notice"
                 /\ Published[i].log = log_name})

\* C1: whatever has reached a user (a real-time event, an email, an SMS) is
\* about a database write that is committed: the Notification Log it announces
\* is a committed log, and a 'notification_read' event finds the log committed
\* as read.  A delivery made before the commit, or left behind by a rollback,
\* breaks it.
C1_DeliveredOnlyAfterCommit ==
  \A i \in DOMAIN deliveries :
    \E l \in logs :
      /\ l.name = deliveries[i].log
      /\ (deliveries[i].kind = "realtime" /\ deliveries[i].event = "notification_read")
           => l.read = 1

\* The enabled users a rule's recipient rows name, directly or by a role.
Matched(cn) ==
  {u \in DOMAIN UserTable :
     /\ UserTable[u].enabled = 1
     /\ \E i \in DOMAIN cn.recipients :
          \/ /\ cn.recipients[i].recipient_type = "User"
             /\ cn.recipients[i].recipient_value = u
          \/ /\ cn.recipients[i].recipient_type = "Role"
             /\ <<u, cn.recipients[i].recipient_value>> \in HasRole}

MatchCount(cn, u) ==
  Cardinality({i \in DOMAIN cn.recipients :
     \/ /\ cn.recipients[i].recipient_type = "User"
        /\ cn.recipients[i].recipient_value = u
     \/ /\ cn.recipients[i].recipient_type = "Role"
        /\ <<u, cn.recipients[i].recipient_value>> \in HasRole})

LogsOf(f, u) ==
  {l \in AllLogs : l.firing = f[1] /\ l.rule = f[2] /\ l.for_user = u}

CallsOf(f, u) ==
  {i \in DOMAIN calls :
     calls[i].firing = f[1] /\ calls[i].rule = f[2] /\ calls[i].user = u}

HookEvents ==
  {<<"on_update", "Save">>, <<"on_submit", "Submit">>, <<"on_cancel", "Cancel">>}

Eligible(n, method, doctype) ==
  /\ RuleNamed(n).enabled = 1
  /\ RuleNamed(n).document_type = doctype
  /\ <<method, RuleNamed(n).send_on>> \in HookEvents

\* C4: a hook other than on_update, on_submit and on_cancel looks at no rule
\* and sends nothing; the three hooks look only at enabled rules of the
\* document's type whose send_on is Save, Submit, Cancel respectively, and
\* every Notification Log comes from such a rule.
C4_OnlyMatchingRulesEvaluated ==
  /\ last.method \in Methods =>
       /\ \A n \in last.evaluated : Eligible(n, last.method, last.doctype)
       /\ (\A e \in {"Save", "Submit", "Cancel"} : <<last.method, e>> \notin HookEvents)
            => (last.evaluated = {} /\ last.sent = 0)
  /\ \A l \in AllLogs : Eligible(l.rule, l.method, l.document_type)

C4_Witness ==
  /\ rules[1].enabled = 0 /\ rules[1].send_on = "Save"
  /\ last.method = "on_update" /\ last.doctype = "Sales Invoice"
  /\ last.evaluated = {"R2"} /\ last.sent > 0

\* C5: each call of send_notification inserts exactly one Notification Log,
\* for its recipient, and publishes exactly one real-time event, to that
\* recipient (dropped with the log by a rollback); it sends one email to the
\* recipient exactly when the channel is 'Email', one SMS to the recipient's
\* mobile number exactly when the channel is 'Sms', SMS is enabled in the
\* settings and the user has a mobile number; never both an email and an SMS.
C5_ChannelsOfOneCall ==
  /\ next_log = Len(calls) + 1
  /\ Cardinality(AllLogs) + Cardinality(rolled_back) = Len(calls)
  /\ \A i \in DOMAIN calls :
       LET c == calls[i]
           gone == c.log \in rolled_back
           sms == /\ c.channel = "Sms" /\ sms_enabled
                  /\ UserTable[c.user].mobile_no # ""
       IN /\ Cardinality({l \in AllLogs : l.name = c.log /\ l.for_user = c.user})
               = IF gone THEN 0 ELSE 1
          /\ NewNotices(c.log) = IF gone THEN 0 ELSE 1
          /\ \A j \in DOMAIN Published :
               Published[j].log = c.log /\ Published[j].kind # "sms"
                 => Published[j].to = c.user
          /\ Count(deliveries, "email", c.log) = IF c.channel = "Email" THEN 1 ELSE 0
          /\ Count(deliveries, "sms", c.log) = IF sms THEN 1 ELSE 0
          /\ \A j \in DOMAIN deliveries :
               deliveries[j].log = c.log /\ deliveries[j].kind = "sms"
                 => deliveries[j].to = UserTable[c.user].mobile_no
          /\ ~(Count(deliveries, "email", c.log) > 0 /\ Count(deliveries, "sms", c.log) > 0)

C5_Witness ==
  /\ \E i \in DOMAIN deliveries : deliveries[i].kind = "sms"
  /\ \E i \in DOMAIN deliveries : deliveries[i].kind = "email"
  /\ \E i \in DOMAIN calls :
       calls[i].channel = "Sms" /\ UserTable[calls[i].user].mobile_no = ""
  /\ \E i \in DOMAIN deliveries :
       deliveries[i].kind = "realtime" /\ deliveries[i].event = "new_notice"



\* C17: a run of the on_update hook for a document whose docstatus differs
\* from that of its doc_before_save looks at no rule and calls
\* send_notification for none, so that no Save rule reaches the send loop in
\* that run.
C17_NoSaveRuleOnStatusChange ==
  (last.method = "on_update" /\ last.docstatus_changed) =>
    /\ last.evaluated = {}
    /\ last.sent = 0
    /\ \A f \in fired : f[1] = last.firing => RuleNamed(f[2]).send_on # "Save"

\* Such a run, with an enabled Save rule for the document's type whose
\* condition is blank.
C17_Witness ==
  /\ last.method = "on_update"
  /\ last.docstatus_changed
  /\ last.doctype = "Sales Invoice"
  /\ \E i \in DOMAIN rules :
       /\ rules[i].enabled = 1
       /\ rules[i].send_on = "Save"
       /\ rules[i].document_type = "Sales Invoice"
       /\ rules[i].condition = CondBlank

(***************************************************************************)
(* utils/notification_utils.py.  st is the database as the job's            *)
(* transaction sees it: the committed logs, the logs inserted and not yet   *)
(* committed, the real-time events waiting for the commit, the deliveries,  *)
(* the next free log name and the date.  A subject is a sequence of words.  *)
(***************************************************************************)
Roles == {"System Manager", "Manager", "Accounts"}

IsValidUser(user) == UserExists(user) /\ UserTable[user].enabled = 1

GetUsersWithRole(role_name) ==
  IF role_name \notin Roles THEN {}
  ELSE {u \in DOMAIN UserTable : <<u, role_name>> \in HasRole /\ UserTable[u].enabled = 1}

NotificationConfigs(notification_type) ==
  [users |-> {"Administrator"}, roles |-> {"System Manager"}]

\* The set get_notification_users turns into a list.
GetNotificationUsers(notification_type) ==
  LET config == NotificationConfigs(notification_type) IN
  {u \in config.users : IsValidUser(u)}
    \cup UNION {GetUsersWithRole(role) : role \in config.roles}

\* list(valid_users): the order of a set's elements is the interpreter's; it
\* decides only which user's log is inserted first, and is the sorted one here.
ListOf(S) == SortedUsers(S)

\* subject LIKE %pattern%
Like(subject, pattern) ==
  \E i \in 1..(Len(subject) - Len(pattern) + 1) :
    SubSeq(subject, i, i + Len(pattern) - 1) = pattern

\* The query restricted to the day (the variant the jobs no longer use).
HasBeenNotifiedToday(st, doc_type, doc_name, subject_pattern) ==
  \E l \in st.logs \cup Range(st.pending) :
    /\ l.document_type = doc_type
    /\ l.document_name = doc_name
    /\ l.creation >= st.today
    /\ Like(l.subject, subject_pattern)

HasBeenNotifiedEver(st, doc_type, doc_name, subject_pattern) ==
  \E l \in st.logs \cup Range(st.pending) :
    /\ l.document_type = doc_type
    /\ l.document_name = doc_name
    /\ Like(l.subject, subject_pattern)

\* send_single_notification; insert_fails are the users whose insert raises.
SendSingleNotification(st, user, subject, doc, channel, insert_fails, ghost) ==
  IF ~IsValidUser(user) THEN [st |-> st, ok |-> FALSE]
  ELSE IF user \in insert_fails THEN [st |-> st, ok |-> FALSE]
  ELSE
    LET log_name == st.next_log
        s1 == [st EXCEPT
                 !.pending = Append(@, [name |-> log_name, subject |-> subject,
                                        document_type |-> doc.doctype,
                                        document_name |-> doc.name,
                                        for_user |-> user, read |-> 0,
                                        creation |-> st.today] @@ ghost),
                 !.next_log = @ + 1,
                 !.queue = Append(@, [kind |-> "realtime", event |-> "new_notice",
                                      to |-> user, log |-> log_name])]
    IN [st |-> IF channel = "Email"
               THEN [s1 EXCEPT !.deliveries =
                       Append(@, [kind |-> "email", to |-> user, log |-> log_name])]
               ELSE s1,
        ok |-> TRUE]

RECURSIVE SendNotificationToUsers(_, _, _, _, _, _, _)
SendNotificationToUsers(st, users, subject, doc, channel, insert_fails, ghost) ==
  IF users = <<>> THEN [st |-> st, notified_users |-> <<>>]
  ELSE
    LET one == SendSingleNotification(st, Head(users), subject, doc, channel,
                                      insert_fails, ghost)
        rest == SendNotificationToUsers(one.st, Tail(users), subject, doc, channel,
                                        insert_fails, ghost)
    IN [st |-> rest.st,
        notified_users |-> IF one.ok THEN <<Head(users)>> \o rest.notified_users
                           ELSE rest.notified_users]

\* frappe.db.commit() and frappe.db.rollback() on the job's transaction.
DbCommit(st) ==
  [st EXCEPT !.logs = @ \cup Range(st.pending), !.pending = <<>>,
             !.deliveries = @ \o st.queue, !.queue = <<>>]

DbRollback(st) == [st EXCEPT !.pending = <<>>, !.queue = <<>>]


(***************************************************************************)
(* tasks.py: the scheduled jobs.  insert_fails are the users whose          *)
(* Notification Log insert raises in this run, commit_fails the documents   *)
(* whose commit raises.                                                     *)
(***************************************************************************)
MaxRuns == 2
MaxDay == 2

InvoiceNames == <<"SINV-1", "SINV-2">>

LowStockQty == 10

\* f"{item.item_code}-{item.warehouse}"
BinDocName(item) ==
  CASE item.item_code = "ITEM-1" /\ item.warehouse = "WH-A" -> "ITEM-1-WH-A"
    [] item.item_code = "ITEM-1" /\ item.warehouse = "WH-B" -> "ITEM-1-WH-B"

\* The query of lines 16-21, by name.
OverdueInvoices(rows, date) ==
  LET overdue(n) == /\ rows[n].docstatus = 1
                    /\ rows[n].outstanding_amount > 0
                    /\ rows[n].due_date < date
  IN SelectSeq(InvoiceNames, overdue)

\* The query of lines 84-91.
LowStockItems(rows) ==
  LET low(item) == /\ item.actual_qty <= LowStockQty
                   /\ item.actual_qty > 0
                   /\ item.disabled = 0
  IN SelectSeq(rows, low)

SendOverdueNotification(st, invoice_name, insert_fails, ghost) ==
  LET users == ListOf(GetNotificationUsers("overdue"))
      result == SendNotificationToUsers(
                  st, users, <<"Overdue", "Invoice:", invoice_name>>,
                  [doctype |-> "Sales Invoice", name |-> invoice_name],
                  "System Notification", insert_fails, ghost)
  IN [st |-> result.st, ok |-> Len(result.notified_users) > 0]

SendLowStockNotification(st, item, insert_fails, ghost) ==
  LET users == ListOf(GetNotificationUsers("low_stock"))
      result == SendNotificationToUsers(
                  st, users, <<"Low", "Stock:", item.item_code, item.actual_qty>>,
                  [doctype |-> "Bin", name |-> BinDocName(item)],
                  "System Notification", insert_fails, ghost)
  IN [st |-> result.st, ok |-> Len(result.notified_users) > 0]

\* Lines 26-38: the loop over the invoices found; skipped and sent gather the
\* invoices passed over and the invoices whose notification was committed.
RECURSIVE NotifyOverdueInvoices(_, _, _, _, _, _, _)
NotifyOverdueInvoices(st, overdue_invoices, insert_fails, commit_fails, ghost, skipped, sent) ==
  IF overdue_invoices = <<>> THEN [st |-> st, skipped |-> skipped, sent |-> sent]
  ELSE
    LET invoice == Head(overdue_invoices)
        rest == Tail(overdue_invoices)
        r == SendOverdueNotification(st, invoice, insert_fails, ghost)
    IN
    IF HasBeenNotifiedEver(st, "Sales Invoice", invoice, <<"Overdue">>)
    THEN NotifyOverdueInvoices(st, rest, insert_fails, commit_fails,
                               ghost, skipped \cup {invoice}, sent)
    ELSE IF ~r.ok
    THEN NotifyOverdueInvoices(r.st, rest, insert_fails, commit_fails,
                               ghost, skipped, sent)
    ELSE IF invoice \in commit_fails
    THEN NotifyOverdueInvoices(DbRollback(r.st), rest, insert_fails,
                               commit_fails, ghost, skipped, sent)
    ELSE NotifyOverdueInvoices(DbCommit(r.st), rest, insert_fails,
                               commit_fails, ghost, skipped, sent \cup {invoice})

\* Lines 96-110: the loop over the low-stock rows found.
RECURSIVE NotifyLowStock(_, _, _, _, _, _, _)
NotifyLowStock(st, low_stock_items, insert_fails, commit_fails, ghost, skipped, sent) ==
  IF low_stock_items = <<>> THEN [st |-> st, skipped |-> skipped, sent |-> sent]
  ELSE
    LET item == Head(low_stock_items)
        rest == Tail(low_stock_items)
        doc_name == BinDocName(item)
        r == SendLowStockNotification(st, item, insert_fails, ghost)
    IN
    IF HasBeenNotifiedEver(st, "Bin", doc_name, <<"Low", "Stock:">>)
    THEN NotifyLowStock(st, rest, insert_fails, commit_fails,
                        ghost, skipped \cup {doc_name}, sent)
    ELSE IF ~r.ok
    THEN NotifyLowStock(r.st, rest, insert_fails, commit_fails,
                        ghost, skipped, sent)
    ELSE IF doc_name \in commit_fails
    THEN NotifyLowStock(DbRollback(r.st), rest, insert_fails,
                        commit_fails, ghost, skipped, sent)
    ELSE NotifyLowStock(DbCommit(r.st), rest, insert_fails,
                        commit_fails, ghost, skipped, sent \cup {doc_name})

JobState ==
  [logs |-> logs, pending |-> pending, queue |-> realtime_queue,
   deliveries |-> deliveries, next_log |-> next_log, today |-> today]

JobDone(job, found, r) ==
  /\ logs' = r.st.logs
  /\ pending' = r.st.pending
  /\ realtime_queue' = r.st.queue
  /\ deliveries' = r.st.deliveries
  /\ next_log' = r.st.next_log
  /\ runs' = runs + 1
  /\ last_run' = [run |-> runs + 1, job |-> job, found |-> found,
                  skipped |-> r.skipped, sent |-> r.sent]
  /\ UNCHANGED <<rules, sms_enabled, in_request, calls, fired, last, requests,
                 rolled_back, today, invoices, bins, retryVars, smsVars, extraVars>>

CheckAndNotifyOverdueInvoices(insert_fails, commit_fails) ==
  /\ runs < MaxRuns
  /\ LET overdue_invoices == OverdueInvoices(invoices, today) IN
     JobDone("overdue", Range(overdue_invoices),
             NotifyOverdueInvoices(JobState, overdue_invoices, insert_fails,
                                   commit_fails, [run |-> runs + 1], {}, {}))

CheckAndNotifyLowStock(insert_fails, commit_fails) ==
  /\ runs < MaxRuns
  /\ LET low_stock_items == LowStockItems(bins) IN
     JobDone("low_stock", {BinDocName(item) : item \in Range(low_stock_items)},
             NotifyLowStock(JobState, low_stock_items, insert_fails,
                            commit_fails, [run |-> runs + 1], {}, {}))

\* The world between runs: the date moves on, invoices are submitted and paid
\* or their payment is undone, stock moves, the item is disabled or enabled.
AdvanceDay ==
  /\ today < MaxDay
  /\ today' = today + 1
  /\ UNCHANGED <<invoices, bins, runs, last_run, notifyVars, retryVars, smsVars, extraVars>>

SaveInvoice(name, docstatus, outstanding_amount) ==
  /\ invoices[name].docstatus <= docstatus
  /\ invoices' = [invoices EXCEPT ![name].docstatus = docstatus,
                                  ![name].outstanding_amount = outstanding_amount]
  /\ UNCHANGED <<today, bins, runs, last_run, notifyVars, retryVars, smsVars, extraVars>>

StockMove(i, actual_qty, disabled) ==
  /\ bins' = [bins EXCEPT ![i].actual_qty = actual_qty, ![i].disabled = disabled]
  /\ UNCHANGED <<today, invoices, runs, last_run, notifyVars, retryVars, smsVars, extraVars>>

InitJobs ==
  /\ today = 1
  /\ invoices = [n \in Range(InvoiceNames) |->
                   [docstatus |-> IF n = "SINV-1" THEN 0 ELSE 1,
                    outstanding_amount |-> 100,
                    due_date |-> IF n = "SINV-1" THEN 1 ELSE 0]]
  /\ bins = <<[item_code |-> "ITEM-1", warehouse |-> "WH-A", actual_qty |-> 20,
               disabled |-> 0]>>
  /\ runs = 0
  /\ last_run = NoRun
  /\ IdleNotify
  /\ IdleRetry
  /\ IdleSms
  /\ IdleExtra

NextJobs ==
  \/ \E insert_fails \in SUBSET GetNotificationUsers("overdue"),
        commit_fails \in SUBSET Range(InvoiceNames) :
       CheckAndNotifyOverdueInvoices(insert_fails, commit_fails)
  \/ \E insert_fails \in SUBSET GetNotificationUsers("low_stock"),
        commit_fails \in SUBSET {"ITEM-1-WH-A"} :
       CheckAndNotifyLowStock(insert_fails, commit_fails)
  \/ AdvanceDay
  \/ \E name \in Range(InvoiceNames), docstatus \in 0..1,
        outstanding_amount \in {0, 100} :
       SaveInvoice(name, docstatus, outstanding_amount)
  \/ \E i \in DOMAIN bins, actual_qty \in {0, 5, 20}, disabled \in {0, 1} :
       StockMove(i, actual_qty, disabled)

SpecJobs == InitJobs /\ [][NextJobs]_vars

MaxMessages == 41

ChunkSize == 20

RECURSIVE ChunkOverlappingFrom(_, _, _)
ChunkOverlappingFrom(data, chunk_size, i) ==
  IF i >= Len(data) THEN <<>>
  ELSE <<SubSeq(data, i + 1, Min(i + chunk_size + 1, Len(data)))>>
         \o ChunkOverlappingFrom(data, chunk_size, i + chunk_size)

\* A chunk_list whose slices run one element too far.
ChunkListOverlapping(data, chunk_size) == ChunkOverlappingFrom(data, chunk_size, 0)

\* for i in range(0, len(data), chunk_size): yield data[i:i + chunk_size]
RECURSIVE ChunkFrom(_, _, _)
ChunkFrom(data, chunk_size, i) ==
  IF i >= Len(data) THEN <<>>
  ELSE <<SubSeq(data, i + 1, Min(i + chunk_size, Len(data)))>>
         \o ChunkFrom(data, chunk_size, i + chunk_size)

ChunkList(data, chunk_size) == ChunkFrom(data, chunk_size, 0)

Messages(n) == [i \in 1..n |-> [mobile |-> i]]

TokenOutcomes == {"cached", "generated", "failed"}

\* Lines 343-352: nothing is asked of the gateway for an empty list; otherwise
\* the token comes first, and its failure raises out of the call.
SendBulkSms(n, token) ==
  /\ bulk.pc \in {"idle", "returned", "raised"}
  /\ bulk' = [pc |-> IF n = 0 THEN "returned"
                     ELSE IF token = "failed" THEN "raised" ELSE "chunks",
              messages |-> Messages(n),
              token_requests |-> IF n = 0 \/ token = "cached" THEN 0 ELSE 1,
              submissions |-> <<>>,
              results |-> <<>>]
  /\ UNCHANGED <<retryVars, smsVars, notifyVars, jobVars, queued_jobs, otherVars>>

\* Lines 363-383: one chunk, submitted with _post_with_retry; its handled
\* response, or the error of a failed chunk, is appended to the results.
SendBulkSmsChunk(answers) ==
  /\ bulk.pc = "chunks"
  /\ LET chunks == ChunkList(bulk.messages, ChunkSize)
         k == Len(bulk.results) + 1
         sent == PostAndHandle(answers, "Bulk SMS")
         entry == IF sent.raised
                  THEN [error |-> "failed", chunk |-> chunks[k]]
                  ELSE sent.value
     IN bulk' = [bulk EXCEPT
                   !.submissions = Append(@, chunks[k]),
                   !.results = Append(@, entry),
                   !.pc = IF k = Len(chunks) THEN "returned" ELSE "chunks"]
  /\ UNCHANGED <<retryVars, smsVars, notifyVars, jobVars, queued_jobs, otherVars>>

InitBulk ==
  /\ IdleRetry /\ IdleSms /\ IdleNotify /\ IdleJobs /\ IdleExtra

NextBulk ==
  \/ \E n \in 0..MaxMessages, token \in TokenOutcomes : SendBulkSms(n, token)
  \/ \E answers \in Scripts : SendBulkSmsChunk(answers)

SpecBulk == InitBulk /\ [][NextBulk]_vars

RECURSIVE Flatten(_)
Flatten(seqs) == IF seqs = <<>> THEN <<>> ELSE Head(seqs) \o Flatten(Tail(seqs))

\* C11: a call of send_bulk_sms that got its token and has returned made
\* ceil(n/20) bulk submissions for its n messages; the submissions, one after
\* another, are the input list (every message in one chunk, in input order);
\* every chunk holds 20 messages but the last, which holds 1 to 20; the
\* returned list has one entry per chunk, failed chunks included; an empty
\* input returns [] with no token request and no submission.
C11_ChunksOfTwenty ==
  bulk.pc = "returned" =>
    LET n == Len(bulk.messages)
        made == Len(bulk.submissions)
    IN /\ made = (n + 19) \div 20
       /\ Flatten(bulk.submissions) = bulk.messages
       /\ \A k \in 1..made :
            /\ Len(bulk.submissions[k]) >= 1
            /\ Len(bulk.submissions[k]) <= 20
            /\ k < made => Len(bulk.submissions[k]) = 20
       /\ Len(bulk.results) = made
       /\ n = 0 => (bulk.results = <<>> /\ bulk.token_requests = 0)

C11_Witness ==
  /\ bulk.pc = "returned"
  /\ Len(bulk.messages) > 40
  /\ Len(bulk.submissions) = 3
  /\ "error" \in DOMAIN bulk.results[1]
  /\ "chunk" \notin DOMAIN bulk.results[2]


(***************************************************************************)
(* scheduled_tasks.py: trigger_overdue_notifications.  Dates are day        *)
(* numbers.  doc.save() is taken to do what the framework's save does for   *)
(* the rules engine: it stamps `modified` and runs                          *)
(* evaluate_custom_notifications with on_update and the stored document as  *)
(* doc_before_save.  `invoices` holds the stored Sales Invoice documents.   *)
(***************************************************************************)
RecentPostingDays == 30

\* The query of lines 6-15.  `modified` is a time of day: it is later than
\* the start of yesterday when its day is yesterday or later.
TriggerCandidates(rows, date) ==
  LET hit(n) == /\ rows[n].status = "Overdue"
                /\ rows[n].docstatus = 1
                /\ rows[n].modified >= date - 1
                /\ rows[n].posting_date > date - RecentPostingDays
  IN SelectSeq(InvoiceNames, hit)

\* The query of lines 21-28: a Notification Log of the invoice created since
\* yesterday.
ExistingNotification(st, name) ==
  \E l \in st.logs \cup Range(st.pending) :
    /\ l.document_type = "Sales Invoice"
    /\ l.document_name = name
    /\ l.creation >= st.today - 1

\* doc.save(): the document as saved, and the state after the on_update hook.
DocSave(st, all_rules, doc_before_save, doc, ghost) ==
  EvaluateCustomNotifications(st, all_rules, [doc EXCEPT !.modified = st.today],
                              "on_update", doc_before_save, FALSE,
                              [method |-> "on_update", creation |-> st.today] @@ ghost)

\* Lines 18-38: the loop over the invoices found.  saved gathers the documents
\* re-saved, skipped the invoices that had a recent log.
RECURSIVE TriggerLoop(_, _, _)
TriggerLoop(st, overdue_invoices, all_rules) ==
  IF overdue_invoices = <<>> THEN st
  ELSE
    LET name == Head(overdue_invoices)
        doc == st.stored[name]
        resaved == DocSave(st, all_rules, doc, doc,
                           [firing |-> st.requests + 1, run |-> st.run])
        next ==
          IF ExistingNotification(st, name)
          THEN [st EXCEPT !.skipped = @ \cup {name}]
          ELSE [resaved EXCEPT !.stored[name].modified = st.today,
                               !.requests = @ + 1,
                               !.saved = @ \cup {doc}]
    IN TriggerLoop(DbCommit(next), Tail(overdue_invoices), all_rules)

TriggerState(run) ==
  [logs |-> logs, pending |-> pending, queue |-> realtime_queue,
   deliveries |-> deliveries, next_log |-> next_log, calls |-> calls,
   evaluated |-> {}, fired |-> {}, today |-> today, stored |-> invoices,
   requests |-> requests, run |-> run, skipped |-> {}, saved |-> {}]

TriggerDone(st) ==
  /\ logs' = st.logs
  /\ pending' = st.pending
  /\ realtime_queue' = st.queue
  /\ deliveries' = st.deliveries
  /\ next_log' = st.next_log
  /\ calls' = st.calls
  /\ invoices' = st.stored
  /\ requests' = st.requests
  /\ UNCHANGED <<rules, sms_enabled, in_request, fired, last, rolled_back,
                 today, bins, retryVars, smsVars, extraVars>>

TriggerOverdueNotifications ==
  /\ runs < MaxRuns
  /\ LET overdue_invoices == TriggerCandidates(invoices, today)
         st == TriggerLoop(TriggerState(runs + 1), overdue_invoices, rules)
     IN /\ TriggerDone(st)
        /\ runs' = runs + 1
        /\ last_run' = [run |-> runs + 1, job |-> "trigger",
                        found |-> Range(overdue_invoices),
                        skipped |-> st.skipped, sent |-> st.saved]

\* A user's request that changes an invoice and saves it; the request commits.
UserSave(name, status, grand_total) ==
  /\ requests < MaxRequests
  /\ LET doc == [invoices[name] EXCEPT !.status = status,
                                       !.grand_total = grand_total]
         st == DbCommit(DocSave(TriggerState(0), rules, invoices[name], doc,
                                [firing |-> requests + 1, run |-> 0]))
     IN TriggerDone([st EXCEPT !.stored[name] = [doc EXCEPT !.modified = today],
                               !.requests = requests + 1])
  /\ UNCHANGED <<runs, last_run>>

TriggerRules ==
  {r \in FirstRules : r.send_on = "Save" /\ r.channel = "System Notification"}

InitTrigger ==
  /\ \E r1 \in TriggerRules, r2 \in SecondRules : rules = <<r1, r2>>
  /\ sms_enabled = FALSE
  /\ EmptyNotify
  /\ today = 1
  /\ invoices = [n \in Range(InvoiceNames) |->
                   [doctype |-> "Sales Invoice", name |-> n, docstatus |-> 1,
                    status |-> "Overdue", grand_total |-> 1000, modified |-> 0,
                    posting_date |-> IF n = "SINV-1" THEN 0 ELSE 0 - 40]]
  /\ bins = <<>>
  /\ runs = 0
  /\ last_run = NoRun
  /\ IdleRetry /\ IdleSms /\ IdleExtra

NextTrigger ==
  \/ TriggerOverdueNotifications
  \/ \E name \in Range(InvoiceNames), status \in {"Overdue", "Paid"},
        grand_total \in {0, 1000} :
       UserSave(name, status, grand_total)
  \/ AdvanceDay

SpecTrigger == InitTrigger /\ [][NextTrigger]_vars

\* C12: after a run of trigger_overdue_notifications, every invoice it
\* re-saved has, from that run, a Notification Log of every enabled Save rule
\* on Sales Invoice whose condition holds for the invoice and that has a
\* recipient.
C12_ResaveFiresSaveRules ==
  last_run.job = "trigger" =>
    \A doc \in last_run.sent : \A i \in DOMAIN rules :
      ( /\ rules[i].enabled = 1
        /\ rules[i].send_on = "Save"
        /\ rules[i].document_type = "Sales Invoice"
        /\ CheckCondition(doc, rules[i].condition)
        /\ Matched(rules[i]) # {} )
      => \E l \in logs : /\ l.document_name = doc.name
                         /\ l.rule = rules[i].name
                         /\ l.run = last_run.run


(***************************************************************************)
(* api/sms_api.py: send_async_sms, the whole handler.  enqueue_ok tells     *)
(* whether the service is set up and the job queue takes the job, log_ok    *)
(* whether the SMS Log insert succeeds; a failure of either is an exception *)
(* that the handler's except clause answers.                                *)
(***************************************************************************)
ApiSendAsyncSms(mobile_numbers, message_len, use_basic_auth, enqueue_ok, log_ok) ==
  /\ call.pc = "idle"
  /\ LET start == [CallIdle EXCEPT !.op = "send_async_sms", !.pc = "done",
                                   !.message_len = message_len,
                                   !.given = mobile_numbers,
                                   !.use_basic_auth = use_basic_auth]
         empty == IF mobile_numbers.t = "str" THEN mobile_numbers.s = <<>>
                  ELSE mobile_numbers.items = <<>>
         list == IF mobile_numbers.t = "str" THEN <<mobile_numbers.s>>
                 ELSE mobile_numbers.items
         cleaned_numbers == CleanNumbers(list)
     IN
     IF empty \/ message_len = 0
     THEN /\ call' = [start EXCEPT
                        !.ret = ErrorReturn("Mobile numbers and message are required")]
          /\ UNCHANGED <<queued_jobs, sms_logs>>
     ELSE IF cleaned_numbers = <<>>
     THEN /\ call' = [start EXCEPT
                        !.ret = ErrorReturn("No valid mobile numbers provided")]
          /\ UNCHANGED <<queued_jobs, sms_logs>>
     ELSE IF ~enqueue_ok
     THEN /\ call' = [start EXCEPT !.numbers = cleaned_numbers,
                                   !.sent = <<Raised>>,
                                   !.ret = ErrorReturn("exception")]
          /\ UNCHANGED <<queued_jobs, sms_logs>>
     ELSE IF ~log_ok
     THEN /\ call' = [start EXCEPT !.numbers = cleaned_numbers,
                                   !.ret = ErrorReturn("exception")]
          /\ queued_jobs' = queued_jobs + 1
          /\ UNCHANGED sms_logs
     ELSE /\ call' = [start EXCEPT
                        !.numbers = cleaned_numbers,
                        !.ret = [success |-> TRUE, message |-> "SMS queued",
                                 log_name |-> sms_logs + 1]]
          /\ queued_jobs' = queued_jobs + 1
          /\ sms_logs' = sms_logs + 1
  /\ UNCHANGED <<sms_character_limit, retryVars, notifyVars, jobVars, bulk,
                 otherVars>>

\* mobile_numbers of the two handlers: empty, without a digit, or a number.
ValidationRaws == {<<>>, <<"x">>, <<"0", "6", "1">>}

ValidationInputs ==
  {[t |-> "str", s |-> n] : n \in ValidationRaws}
  \cup {[t |-> "list", items |-> l] :
          l \in UNION {[1..k -> ValidationRaws] : k \in 0..MaxNumbers}}

NextSmsInput ==
  \/ \E m \in ValidationInputs, len \in 0..MaxMessageLen, basic \in BOOLEAN :
       ApiSendSms(m, len, basic)
  \/ \E token_ok \in BOOLEAN, answers \in Scripts : ApiSendSingle(token_ok, answers)
  \/ \E token_ok \in BOOLEAN, answers \in Scripts : ApiSendBulkNext(token_ok, answers)
  \/ ApiSendBulkReturn
  \/ \E m \in ValidationInputs, len \in 0..MaxMessageLen, basic \in BOOLEAN,
        enqueue_ok \in BOOLEAN, log_ok \in BOOLEAN :
       ApiSendAsyncSms(m, len, basic, enqueue_ok, log_ok)

SpecSmsInput == InitSms /\ [][NextSmsInput]_vars

GivenList ==
  IF call.given.t = "str" THEN <<call.given.s>> ELSE call.given.items

\* The input the handlers must turn down: no mobile_numbers, no message, or
\* no number that survives cleaning.
InvalidInput ==
  \/ GivenList = <<>>
  \/ call.given.t = "str" /\ call.given.s = <<>>
  \/ call.message_len = 0
  \/ \A i \in DOMAIN GivenList : CleanMobileNumber(GivenList[i]) = <<>>

\* C13: send_sms and send_async_sms answer an input without mobile numbers,
\* without a message or without a number that survives cleaning with
\* success False and an error message, and for it no send reaches the
\* service, no job is enqueued and no SMS Log is created; a finished call has
\* returned a dict, with success False whenever an exception was raised.
C13_InvalidInputRejected ==
  call.op \in {"send_sms", "send_async_sms"} =>
    /\ InvalidInput =>
         /\ call.pc = "done"
         /\ call.ret.success = FALSE
         /\ "error" \in DOMAIN call.ret
         /\ call.sent = <<>>
         /\ queued_jobs = 0
         /\ sms_logs = 0
    /\ call.pc = "done" =>
         /\ "success" \in DOMAIN call.ret
         /\ (Len(call.numbers) = 1 /\ \E i \in DOMAIN call.sent : call.sent[i].raised)
              => call.ret.success = FALSE
         /\ (call.op = "send_async_sms" /\ call.ret.success)
              => (queued_jobs = 1 /\ sms_logs = 1)

C13_Witness ==
  /\ call.op = "send_async_sms"
  /\ call.pc = "done"
  /\ call.given.t = "list"
  /\ Len(call.given.items) >= 2
  /\ call.message_len > 0
  /\ InvalidInput
  /\ call.ret.success = FALSE


(***************************************************************************)
(* SpecMarkRead: calls of mark_notification_as_read on a table of           *)
(* Notification Logs, read and unread, of several users.                    *)
(***************************************************************************)
StoredLog(name, user, read) ==
  [name |-> name, document_type |-> "Sales Invoice", document_name |-> "SINV-1",
   for_user |-> user, subject |-> <<"R1">>, read |-> read, modified |-> 0]

InitMarkRead ==
  /\ \E r1 \in {0, 1}, r2 \in {0, 1}, r3 \in {0, 1} :
       logs = {StoredLog(1, "a@x", r1), StoredLog(2, "a@x", r2),
               StoredLog(3, "c@x", r3)}
  /\ next_log = 4
  /\ rules = <<>> /\ sms_enabled = FALSE
  /\ pending = <<>> /\ realtime_queue = <<>> /\ in_request = FALSE
  /\ deliveries = <<>>
  /\ calls = <<>> /\ fired = {} /\ last = NoHandler /\ requests = 0
  /\ rolled_back = {}
  /\ IdleRetry /\ IdleSms /\ IdleJobs /\ IdleExtra

NextMarkRead ==
  \E log_name \in 1..next_log, fails \in MarkFailures :
    MarkNotificationAsReadFailing(log_name, fails)

SpecMarkRead == InitMarkRead /\ [][NextMarkRead]_vars

MarkStep == requests' = requests + 1 /\ last'.method = "mark_notification_as_read"

\* C14: a call of mark_notification_as_read that returns 'success' leaves every
\* other log as it was, changes of the named log only `read`, to 1 (so nothing
\* for a log already read, and never `modified`), and delivers exactly one
\* 'notification_read' event, to the log's for_user; a call on a log that does
\* not exist, or one of whose steps fails, returns 'error', delivers nothing,
\* and touches no log but the named one.
C14_MarkReadFrame ==
  [][MarkStep =>
       IF last'.status = "success"
       THEN \E l \in logs :
              /\ l.name = last'.log_name
              /\ logs' = (logs \ {l}) \cup {[l EXCEPT !.read = 1]}
              /\ (l.read = 1 => logs' = logs)
              /\ deliveries' = Append(deliveries,
                                      [kind |-> "realtime",
                                       event |-> "notification_read",
                                       to |-> l.for_user, log |-> l.name])
              /\ UNCHANGED <<pending, realtime_queue>>
       ELSE /\ last'.status = "error"
            /\ UNCHANGED <<deliveries, pending, realtime_queue>>
            /\ ((\A l \in logs : l.name # last'.log_name) => logs' = logs)
            /\ \A l \in logs :
                 l.name # last'.log_name \/ l.read = 1 => l \in logs']_vars

C14_Witness ==
  /\ last.method = "mark_notification_as_read"
  /\ last.status = "success"
  /\ Len(deliveries) = 2
  /\ deliveries[1] = deliveries[2]
  /\ \E l \in logs : l.read = 0
  /\ \A l \in logs : l.modified = 0


(***************************************************************************)
(* report/daily_cash_flow/daily_cash_flow.py.  Amounts are integers.  A GL  *)
(* Entry row of the query carries, as mode_of_payment, the field of the     *)
(* Payment Entry it belongs to.                                             *)
(***************************************************************************)
MaxRows == 3

NoDate == 0

\* get_mode_of_payment
GetModeOfPayment(row) ==
  IF row.voucher_type = "Payment Entry" /\ row.voucher_no # ""
  THEN row.mode_of_payment
  ELSE ""

\* get_opening_balance: 0 without from_date, else the sum over the GL Entries
\* posted before from_date.
GetOpeningBalance(filters, prior_sum) ==
  IF filters.from_date = NoDate THEN 0 ELSE prior_sum

BalanceRow(voucher_type, posting_date, balance) ==
  [posting_date |-> posting_date, voucher_type |-> voucher_type,
   voucher_no |-> "", debit |-> 0, credit |-> 0, balance |-> balance,
   mode_of_payment |-> ""]

ProcessedRow(row, running_balance) ==
  [posting_date |-> row.posting_date, voucher_type |-> row.voucher_type,
   voucher_no |-> row.voucher_no, debit |-> row.debit, credit |-> row.credit,
   balance |-> running_balance, mode_of_payment |-> GetModeOfPayment(row)]

\* The loop of process_data with a `continue` that comes after the balance
\* has been updated.
RECURSIVE ProcessRowsCountingSkipped(_, _, _, _, _)
ProcessRowsCountingSkipped(data, i, running_balance, processed_data, filters) ==
  IF i > Len(data)
  THEN [running_balance |-> running_balance, processed_data |-> processed_data]
  ELSE LET row == data[i]
           balance == running_balance + row.debit - row.credit
       IN IF /\ filters.mode_of_payment # ""
             /\ GetModeOfPayment(row) # filters.mode_of_payment
          THEN ProcessRowsCountingSkipped(data, i + 1, balance, processed_data,
                                          filters)
          ELSE ProcessRowsCountingSkipped(data, i + 1, balance,
                                          Append(processed_data,
                                                 ProcessedRow(row, balance)),
                                          filters)

\* The loop of process_data from row i on.
RECURSIVE ProcessRows(_, _, _, _, _)
ProcessRows(data, i, running_balance, processed_data, filters) ==
  IF i > Len(data)
  THEN [running_balance |-> running_balance, processed_data |-> processed_data]
  ELSE LET row == data[i]
           balance == running_balance + row.debit - row.credit
       IN IF /\ filters.mode_of_payment # ""
             /\ GetModeOfPayment(row) # filters.mode_of_payment
          THEN ProcessRows(data, i + 1, running_balance, processed_data, filters)
          ELSE ProcessRows(data, i + 1, balance,
                           Append(processed_data, ProcessedRow(row, balance)),
                           filters)

\* The opening row and the closing row around the rows of a loop.
WithBalanceRows(looped, filters) ==
  IF looped.processed_data = <<>>
  THEN <<>>
  ELSE LET last_row == looped.processed_data[Len(looped.processed_data)]
       IN Append(looped.processed_data,
                 BalanceRow("Closing Balance",
                            IF filters.to_date # NoDate THEN filters.to_date
                            ELSE last_row.posting_date,
                            looped.running_balance))

OpeningRows(opening_balance, filters) ==
  IF filters.from_date # NoDate
  THEN <<BalanceRow("Opening Balance", filters.from_date, opening_balance)>>
  ELSE <<>>

ProcessDataCountingSkipped(data, opening_balance, filters) ==
  WithBalanceRows(ProcessRowsCountingSkipped(data, 1, opening_balance,
                                             OpeningRows(opening_balance, filters),
                                             filters),
                  filters)

\* process_data
ProcessData(data, opening_balance, filters) ==
  WithBalanceRows(ProcessRows(data, 1, opening_balance,
                              OpeningRows(opening_balance, filters), filters),
                  filters)

RECURSIVE SumOf(_, _)
SumOf(rows, field) ==
  IF rows = <<>> THEN 0 ELSE rows[1][field] + SumOf(Tail(rows), field)

IsTransaction(row) ==
  row.voucher_type \notin {"Opening Balance", "Closing Balance"}

\* next(... for row in data if row.voucher_type == voucher_type, 0)
FirstBalance(data, voucher_type) ==
  LET found == SelectSeq(data, LAMBDA row : row.voucher_type = voucher_type)
  IN IF found = <<>> THEN 0 ELSE found[1].balance

NoMessage == [none |-> TRUE]

\* get_custom_totals_message: the four amounts of the summary.
GetCustomTotalsMessage(data) ==
  IF data = <<>>
  THEN NoMessage
  ELSE LET transaction_data == SelectSeq(data, IsTransaction)
       IN [none |-> FALSE,
           total_cash_in |-> SumOf(transaction_data, "debit"),
           total_cash_out |-> SumOf(transaction_data, "credit"),
           opening_balance |-> FirstBalance(data, "Opening Balance"),
           closing_balance |-> FirstBalance(data, "Closing Balance")]

\* execute: get_data (the query's rows processed from the opening balance) and
\* the summary.
Execute ==
  /\ report.pc = "input"
  /\ LET opening_balance == GetOpeningBalance(report.filters, report.prior_sum)
         data == ProcessData(report.gl_entries, opening_balance, report.filters)
     IN report' = [report EXCEPT !.pc = "done", !.data = data,
                                 !.message = GetCustomTotalsMessage(data)]
  /\ UNCHANGED <<retryVars, smsVars, notifyVars, jobVars, bulk, queued_jobs,
                 probe, workers>>

Debits == {0, 2, 5}
Credits == {0, 3}
PriorSums == {-3, 0, 4}

\* The rows of the query: GL Entries of Payment Entries paid in cash and of
\* Journal Entries, in the query's order.
GlEntries ==
  {[posting_date |-> 1, voucher_type |-> v, voucher_no |-> "V",
    debit |-> d, credit |-> c,
    mode_of_payment |-> IF v = "Payment Entry" THEN "Cash" ELSE ""] :
     v \in {"Payment Entry", "Journal Entry"}, d \in Debits, c \in Credits}

ReportFilters ==
  [from_date : {NoDate, 1}, to_date : {NoDate}, mode_of_payment : {"", "Cash", "Wire"}]

InitCashFlow ==
  /\ \E filters \in ReportFilters, prior_sum \in PriorSums,
        gl_entries \in UNION {[1..k -> GlEntries] : k \in 0..MaxRows} :
       report = [pc |-> "input", filters |-> filters, prior_sum |-> prior_sum,
                 gl_entries |-> gl_entries, data |-> <<>>, message |-> NoMessage]
  /\ bulk = BulkIdle /\ queued_jobs = 0 /\ probe = ProbeIdle
  /\ workers = NoWorkers
  /\ IdleRetry /\ IdleSms /\ IdleNotify /\ IdleJobs

NextCashFlow == Execute

SpecCashFlow == InitCashFlow /\ [][NextCashFlow]_vars

\* The rows of the query the mode_of_payment filter lets through.
Included ==
  SelectSeq(report.gl_entries,
            LAMBDA row : \/ report.filters.mode_of_payment = ""
                         \/ GetModeOfPayment(row) = report.filters.mode_of_payment)

Opening == IF report.filters.from_date = NoDate THEN 0 ELSE report.prior_sum

\* C15: in the rows of a finished report the k-th transaction row is the k-th
\* included row of the query and its balance is the opening balance plus the
\* sum of debit - credit over the first k included rows; an Opening Balance
\* row is there iff from_date is set; a Closing Balance row is there iff any
\* row was produced, and it carries the last running balance; the summary
\* satisfies Closing = Opening + Cash In - Cash Out.
C15_RunningBalance ==
  report.pc = "done" =>
    LET data == report.data
        transactions == SelectSeq(data, IsTransaction)
        has_opening == data # <<>> /\ data[1].voucher_type = "Opening Balance"
        has_closing == data # <<>> /\ data[Len(data)].voucher_type = "Closing Balance"
        total == Opening + SumOf(Included, "debit") - SumOf(Included, "credit")
    IN /\ Len(transactions) = Len(Included)
       /\ \A k \in 1..Len(transactions) :
            /\ transactions[k].debit = Included[k].debit
            /\ transactions[k].credit = Included[k].credit
            /\ transactions[k].balance =
                 Opening + SumOf(SubSeq(Included, 1, k), "debit")
                         - SumOf(SubSeq(Included, 1, k), "credit")
       /\ has_opening <=> report.filters.from_date # NoDate
       /\ has_opening => data[1].balance = Opening
       /\ has_closing <=> (has_opening \/ Len(Included) > 0)
       /\ Len(data) = Len(transactions) + (IF has_opening THEN 1 ELSE 0)
                                        + (IF has_closing THEN 1 ELSE 0)
       /\ has_closing => data[Len(data)].balance = total
       /\ data = <<>> <=> report.message = NoMessage
       /\ data # <<>> =>
            /\ report.message.opening_balance = Opening
            /\ report.message.closing_balance = total
            /\ report.message.closing_balance =
                 report.message.opening_balance + report.message.total_cash_in
                   - report.message.total_cash_out

\* A report with an opening balance whose filter has left out a row that moved
\* cash, between two rows it kept.
C15_Witness ==
  /\ report.pc = "done"
  /\ report.filters.from_date # NoDate
  /\ report.filters.mode_of_payment = "Cash"
  /\ report.prior_sum # 0
  /\ Len(report.gl_entries) = 3
  /\ Len(Included) = 2
  /\ report.gl_entries[2].voucher_type = "Journal Entry"
  /\ report.gl_entries[2].debit # report.gl_entries[2].credit
  /\ report.message.closing_balance # report.message.opening_balance


(***************************************************************************)
(* SpecJobsLive: the scheduler runs check_and_notify_overdue_invoices       *)
(* again and again.  Runs in which an insert or a commit fails are the      *)
(* first MaxRuns at most; a run without failures is always possible, and    *)
(* the scheduler keeps making such runs.  The count of runs stops at        *)
(* MaxRuns; last_run.slot tells one scheduler slot from the next.  Invoices  *)
(* stay unpaid and the date moves on.                                       *)
(***************************************************************************)
RunNumber == IF runs < MaxRuns THEN runs + 1 ELSE MaxRuns

NextSlot == IF "slot" \in DOMAIN last_run THEN 1 - last_run.slot ELSE 0

ScheduledOverdueRun(insert_fails, commit_fails) ==
  /\ (insert_fails \cup commit_fails # {}) => runs < MaxRuns
  /\ LET overdue_invoices == OverdueInvoices(invoices, today)
         r == NotifyOverdueInvoices(JobState, overdue_invoices, insert_fails,
                                    commit_fails, [run |-> RunNumber], {}, {})
     IN /\ logs' = r.st.logs
        /\ pending' = r.st.pending
        /\ realtime_queue' = r.st.queue
        /\ deliveries' = r.st.deliveries
        /\ next_log' = r.st.next_log
        /\ runs' = RunNumber
        /\ last_run' = [run |-> RunNumber, job |-> "overdue",
                        found |-> Range(overdue_invoices),
                        skipped |-> r.skipped, sent |-> r.sent,
                        slot |-> NextSlot]
  /\ UNCHANGED <<rules, sms_enabled, in_request, calls, fired, last, requests,
                 rolled_back, today, invoices, bins, retryVars, smsVars, extraVars>>

InitJobsLive ==
  /\ today = 1
  /\ invoices = [n \in Range(InvoiceNames) |->
                   [docstatus |-> 1, outstanding_amount |-> 100,
                    due_date |-> IF n = "SINV-1" THEN 1 ELSE 0]]
  /\ bins = <<>>
  /\ runs = 0
  /\ last_run = NoRun
  /\ IdleNotify
  /\ IdleRetry
  /\ IdleSms
  /\ IdleExtra

NextJobsLive ==
  \/ \E insert_fails \in SUBSET GetNotificationUsers("overdue"),
        commit_fails \in SUBSET Range(InvoiceNames) :
       ScheduledOverdueRun(insert_fails, commit_fails)
  \/ AdvanceDay

SpecJobsLive ==
  /\ InitJobsLive
  /\ [][NextJobsLive]_vars
  /\ WF_vars(AdvanceDay)
  /\ []<><<ScheduledOverdueRun({}, {})>>_vars

IsOverdue(name) == name \in Range(OverdueInvoices(invoices, today))

NotifiedTo(name, user) ==
  \E l \in logs : /\ l.document_type = "Sales Invoice"
                  /\ l.document_name = name
                  /\ l.for_user = user

\* C16: under a scheduler that keeps running the job, with failures of
\* inserts and commits that come to an end, every overdue invoice eventually
\* has a Notification Log for every configured recipient.
C16_EveryRecipientNotified ==
  \A name \in Range(InvoiceNames), user \in GetNotificationUsers("overdue") :
    IsOverdue(name) ~> NotifiedTo(name, user)


(***************************************************************************)
(* SpecCondition: check_condition on one document and every condition of    *)
(* a bounded shape.                                                         *)
(***************************************************************************)
MaxEntries == 2

ConditionDocs ==
  {[doctype |-> "Sales Invoice", name |-> "SINV-1", docstatus |-> 1,
    grand_total |-> 1000, status |-> "Overdue"]}

\* The operators a condition may name: those of operator_map and one more.
ConditionOperators == OperatorMap \cup {"~"}

CompareValues ==
  {VInt(500), VStr("Overdue"), VDocRef("customer"), VList({VInt(1000)})}

\* The entries of a JSON condition: a field of the document against a value
\* or against a two-element list.
ConditionEntries ==
  {[field |-> f, expected |-> e] :
     f \in {"grand_total", "status"},
     e \in {VInt(1000), VStr("Overdue")}
           \cup {Pair(op, v) : op \in ConditionOperators, v \in CompareValues}}

Conditions ==
  {CondBlank, CondBadJson}
  \cup {CondJson(entries) :
          entries \in UNION {[1..k -> ConditionEntries] : k \in 0..MaxEntries}}
  \cup {CondExpr(f, op, v) : f \in {"grand_total", "status"},
                             op \in {">", "=="}, v \in {VInt(500), VNone}}

CallCheckCondition ==
  /\ probe.pc = "input"
  /\ probe' = [probe EXCEPT !.pc = "done",
                            !.result = CheckConditionCall(probe.doc, probe.cond)]
  /\ UNCHANGED <<retryVars, smsVars, notifyVars, jobVars, bulk, queued_jobs,
                 report, workers>>

InitCondition ==
  /\ \E doc \in ConditionDocs, cond \in Conditions :
       probe = [pc |-> "input", doc |-> doc, cond |-> cond, result |-> NoReturn]
  /\ bulk = BulkIdle /\ queued_jobs = 0 /\ report = ReportIdle
  /\ workers = NoWorkers
  /\ IdleRetry /\ IdleSms /\ IdleNotify /\ IdleJobs

NextCondition == CallCheckCondition

SpecCondition == InitCondition /\ [][NextCondition]_vars

\* What it is for a comparison to hold: the values can be compared and the
\* comparison is true; `not in` something that holds nothing is true.
Compares(op, a, b) ==
  CASE op = "==" -> a = b
    [] op = "!=" -> a # b
    [] op = ">" -> a.t = "int" /\ b.t = "int" /\ a.v > b.v
    [] op = ">=" -> a.t = "int" /\ b.t = "int" /\ a.v >= b.v
    [] op = "<" -> a.t = "int" /\ b.t = "int" /\ a.v < b.v
    [] op = "<=" -> a.t = "int" /\ b.t = "int" /\ a.v <= b.v
    [] op = "in" -> \/ b.t = "list" /\ a \in b.v
                    \/ b.t = "str" /\ a.t = "str" /\ a.v = b.v
    [] op = "not in" -> \/ b.t = "list" /\ a \notin b.v
                        \/ b.t = "str" /\ a.t = "str" /\ a.v # b.v
                        \/ b.t \notin {"list", "str"}
    [] OTHER -> FALSE

EntryHolds(doc, entry) ==
  IF entry.expected.t = "pair"
  THEN Compares(entry.expected.op, DocGet(doc, entry.field),
                IF entry.expected.value.t = "docref"
                THEN DocGet(doc, entry.expected.value.v)
                ELSE entry.expected.value)
  ELSE DocGet(doc, entry.field) = entry.expected

Workers == {1, 2}

WorkerIdle == [pc |-> "idle", remaining |-> <<>>, pending |-> <<>>, queue |-> <<>>]

WorkerState(w) ==
  [logs |-> logs, pending |-> workers[w].pending, queue |-> workers[w].queue,
   deliveries |-> deliveries, next_log |-> next_log, today |-> today]

WorkerFrame ==
  UNCHANGED <<rules, sms_enabled, pending, realtime_queue, in_request, calls,
              fired, last, requests, rolled_back, jobVars, retryVars, smsVars,
              bulk, queued_jobs, report, probe>>

\* Lines 16-21: the query of the overdue invoices.
WorkerQuery(w) ==
  /\ workers[w].pc = "idle"
  /\ workers' = [workers EXCEPT ![w].pc = "check",
                                ![w].remaining = OverdueInvoices(invoices, today)]
  /\ UNCHANGED <<logs, next_log, deliveries>>
  /\ WorkerFrame

\* Lines 26-30: the next invoice and the check has_been_notified_ever.
WorkerCheck(w) ==
  /\ workers[w].pc = "check"
  /\ workers' =
       IF workers[w].remaining = <<>>
       THEN [workers EXCEPT ![w].pc = "done"]
       ELSE IF HasBeenNotifiedEver(WorkerState(w), "Sales Invoice",
                                   Head(workers[w].remaining), <<"Overdue">>)
       THEN [workers EXCEPT ![w].remaining = Tail(@)]
       ELSE [workers EXCEPT ![w].pc = "send"]
  /\ UNCHANGED <<logs, next_log, deliveries>>
  /\ WorkerFrame

\* Line 32: send_overdue_notification inserts the logs in the run's
\* transaction.
WorkerSend(w, insert_fails) ==
  /\ workers[w].pc = "send"
  /\ LET r == SendOverdueNotification(WorkerState(w), Head(workers[w].remaining),
                                      insert_fails, [run |-> w])
     IN /\ workers' = [workers EXCEPT
                         ![w].pending = r.st.pending,
                         ![w].queue = r.st.queue,
                         ![w].pc = IF r.ok THEN "commit" ELSE "check",
                         ![w].remaining = IF r.ok THEN @ ELSE Tail(@)]
        /\ next_log' = r.st.next_log
        /\ deliveries' = r.st.deliveries
  /\ UNCHANGED logs
  /\ WorkerFrame

\* Lines 33-34: frappe.db.commit().
WorkerCommit(w) ==
  /\ workers[w].pc = "commit"
  /\ LET st == DbCommit(WorkerState(w))
     IN /\ logs' = st.logs
        /\ deliveries' = st.deliveries
        /\ workers' = [workers EXCEPT ![w].pending = st.pending,
                                      ![w].queue = st.queue,
                                      ![w].pc = "check",
                                      ![w].remaining = Tail(@)]
  /\ UNCHANGED next_log
  /\ WorkerFrame

InitWorkers ==
  /\ today = 1
  /\ invoices = [n \in Range(InvoiceNames) |->
                   [docstatus |-> 1, outstanding_amount |-> 100, due_date |-> 0]]
  /\ bins = <<>>
  /\ runs = 0
  /\ last_run = NoRun
  /\ workers = [w \in Workers |-> WorkerIdle]
  /\ bulk = BulkIdle /\ queued_jobs = 0 /\ report = ReportIdle /\ probe = ProbeIdle
  /\ IdleNotify
  /\ IdleRetry
  /\ IdleSms

NextWorkers ==
  \E w \in Workers :
    \/ WorkerQuery(w)
    \/ WorkerCheck(w)
    \/ \E insert_fails \in SUBSET GetNotificationUsers("overdue") :
         WorkerSend(w, insert_fails)
    \/ WorkerCommit(w)

SpecWorkers == InitWorkers /\ [][NextWorkers]_vars

\* C20: whatever the interleaving of the two runs, no two committed overdue
\* Notification Logs are for the same invoice and the same user.
C20_NoDuplicateUnderInterleaving ==
  \A l1, l2 \in logs :
    (/\ l1.document_type = "Sales Invoice"
     /\ l1.document_type = l2.document_type
     /\ l1.document_name = l2.document_name
     /\ l1.for_user = l2.for_user)
      => l1.name = l2.name

====
